---------------------------- MODULE Spec2Model ----------------------------
(* Discrete-event model of the water park simulator (Simulation.py,        *)
(* Event.py, facilities.py, entities.py).  One action per event handler;   *)
(* the handler's whole effect, including the try_start_facility call that  *)
(* ends it, is one step.  Time is counted in ticks of half a second from   *)
(* midnight of the first day; ratings are counted in thousandths.          *)
EXTENDS Integers, Sequences, FiniteSets, TLC

(***************************************************************************)
(* Time                                                                    *)
(***************************************************************************)
TicksPerSecond == 2
TicksPerMinute == 60 * TicksPerSecond
TicksPerDay == 24 * 60 * TicksPerMinute

T(h, m) == (h * 60 + m) * TicksPerMinute
Minutes(n) == n * TicksPerMinute

\* datetime.hour, datetime.minute and hour*60+minute of a timestamp
MinuteOfDay(t) == (t % TicksPerDay) \div TicksPerMinute
HourOf(t) == MinuteOfDay(t) \div 60
DayStart(t) == t - (t % TicksPerDay)
\* hour * 60 + minute + second / 60: the time of day without its microseconds
WholeSeconds(t) == ((t % TicksPerDay) \div TicksPerSecond) * TicksPerSecond

StartTime == T(9, 0)
RunHours == 10
end_time == StartTime + T(RunHours, 0)

(***************************************************************************)
(* Sequences                                                               *)
(***************************************************************************)
Range(s) == {s[i] : i \in 1..Len(s)}
Contains(s, x) == \E i \in 1..Len(s) : s[i] = x
IndexOf(s, x) == CHOOSE i \in 1..Len(s) : s[i] = x /\ \A j \in 1..(i - 1) : s[j] # x
RemoveAt(s, i) == [j \in 1..(Len(s) - 1) |-> IF j < i THEN s[j] ELSE s[j + 1]]
\* list.remove(x): the first occurrence goes, a missing x changes nothing
RemoveFirst(s, x) == IF Contains(s, x) THEN RemoveAt(s, IndexOf(s, x)) ELSE s
\* list.insert(i, x) with a 0-based index i (an index past the end appends)
InsertAt(s, i, x) ==
    LET k == IF i > Len(s) THEN Len(s) ELSE i
    IN  [j \in 1..(Len(s) + 1) |-> IF j <= k THEN s[j] ELSE IF j = k + 1 THEN x ELSE s[j - 1]]
MinOf(S) == CHOOSE x \in S : \A y \in S : x <= y
Max0(x) == IF x < 0 THEN 0 ELSE x

(***************************************************************************)
(* Facilities: Simulation.facilities, in list order                        *)
(***************************************************************************)
PipesRiver == 1
SingleSlide == 2
BigPipes == 3
SmallPipes == 4
WavePool == 5
KidsPool == 6
Snorkel == 7
Facilities == 1..7

age_limit == <<0, 14, 0, 12, 12, 4, 6>>
adrenalin_level == <<1, 5, 2, 4, 3, 1, 3>>
capacity == <<120, 6, 8, 3, 80, 30, 30>>

total_tubes == 60
people_per_tube == 2
num_slides == 2
\* 0.5 minutes
safety_interval == TicksPerMinute \div 2
activity_duration == Minutes(3)
tour_capacity == 30
num_instructors == 2
num_clerks == 3
BreakMinutes == 30

\* Simulation.restaurants, in list order
Pizza == 1
Burger == 2
Salad == 3
Restaurants == 1..3

(***************************************************************************)
(* Bounds of the model and the values the samplers are allowed to return.  *)
(* Every sampler of sampling_algorithms.py is a draw from a small set of   *)
(* values of its distribution's support.                                   *)
(***************************************************************************)
\* arrivals of one stream after the three that __init__ schedules
MaxExtraArrivals == 0
MaxBranchingDraws == 2
\* the days a QueueServer is followed through
MaxDays == 2

KidsAgesChoices == {<<7>>}
FamilyDepartures == {16 * 60 + 5, 18 * 60 + 55}
FamilyExpressDraws == {FALSE}
TeenSizes == {3}
TeenExpressDraws == {FALSE}
SingleAges == {30}
SingleExpressDraws == {FALSE}
\* exponential inter-arrival times (ticks): a short one and one that leaves the window
ArrivalGaps == {Minutes(30)}
\* ticket U[0.5,2] + wristband Exp(mean 2)
ReceptionDurations == {Minutes(2)}
PipesRiverDurations == {Minutes(20), Minutes(30)}
\* Normal(4.8, 1.8322), not resampled: a usual value and one of the lower tail
BigPipesDurations == {Minutes(5), -Minutes(1)}
SmallPipesDurations == {Minutes(1)}
WavePoolDurations == {Minutes(58)}
KidsPoolDurations == {Minutes(116)}
SnorkelDurations == {Minutes(30), Minutes(90)}
RestaurantTimes == {Minutes(9)}
MealDurations == {Minutes(15)}
GoodExperienceDraws == BOOLEAN
SplitDraws == BOOLEAN
NumSplitGroups == {2, 3}
RestaurantChoices == {Burger}
BadMealDraws == {FALSE}
BuyExpressDraws == BOOLEAN

(***************************************************************************)
(* Entities (entities.py).  An entity is an index into ents.               *)
(***************************************************************************)
InitialRating == 10000

NewFamily(ages, dep, express) ==
    [kind |-> "Family", group_size |-> Len(ages) + 2, min_age |-> MinOf(Range(ages)),
     kids_ages |-> ages, has_express_pass |-> express, rating |-> InitialRating,
     visited_facilities |-> {}, departure_time |-> dep, parent_family |-> 0,
     active_subgroups_count |-> 1, is_split |-> FALSE,
     is_shared_tube |-> FALSE, tube_partner |-> 0]

NewSubGroup(W, fam, size, minage) ==
    [kind |-> "SubGroup", group_size |-> size, min_age |-> minage,
     kids_ages |-> <<>>, has_express_pass |-> W.ents[fam].has_express_pass,
     rating |-> W.ents[fam].rating,
     visited_facilities |-> {}, departure_time |-> W.ents[fam].departure_time,
     parent_family |-> fam,
     active_subgroups_count |-> 0, is_split |-> FALSE,
     is_shared_tube |-> FALSE, tube_partner |-> 0]

NewTeenGroup(size, express) ==
    [kind |-> "TeenGroup", group_size |-> size, min_age |-> 14,
     kids_ages |-> <<>>, has_express_pass |-> express, rating |-> InitialRating,
     visited_facilities |-> {}, departure_time |-> 19 * 60, parent_family |-> 0,
     active_subgroups_count |-> 0, is_split |-> FALSE,
     is_shared_tube |-> FALSE, tube_partner |-> 0]

NewSingleVisitor(age, express) ==
    [kind |-> "SingleVisitor", group_size |-> 1, min_age |-> age,
     kids_ages |-> <<>>, has_express_pass |-> express, rating |-> InitialRating,
     visited_facilities |-> {}, departure_time |-> 19 * 60, parent_family |-> 0,
     active_subgroups_count |-> 0, is_split |-> FALSE,
     is_shared_tube |-> FALSE, tube_partner |-> 0]

get_abandonment_threshold(W, v) ==
    CASE W.ents[v].kind \in {"Family", "SubGroup"} -> Minutes(15)
      [] W.ents[v].kind = "TeenGroup" -> Minutes(20)
      [] OTHER -> Minutes(30)

\* calculate_positive_rating: ((gs-1)/5)*0.3 + ((a-1)/4)*0.7, in thousandths
calculate_positive_rating(gs, a) == (gs - 1) * 60 + (a - 1) * 175

update_rating_positive(W, v, gs, a) ==
    [W EXCEPT !.ents[v].rating = @ + calculate_positive_rating(gs, a)]

update_rating_negative(W, v, amount) ==
    [W EXCEPT !.ents[v].rating = Max0(@ - amount)]

\* get_photo_purchase_decision: the price charged for a final rating
PhotoPrice(r) ==
    IF r < 6000 THEN 0 ELSE IF r < 7500 THEN 20 ELSE IF r < 8500 THEN 100 ELSE 120

\* Family.check_and_split once should_family_split() has said yes: the
\* <<size, min_age>> pairs of the subgroups built, in order
SplitPlan(ages, num_groups) ==
    LET under8 == {i \in 1..Len(ages) : ages[i] < 8}
        mid == {i \in 1..Len(ages) : 8 <= ages[i] /\ ages[i] < 12}
        over12 == {i \in 1..Len(ages) : ages[i] >= 12}
        total_size == Len(ages) + 2
        g1 == IF under8 # {}
              THEN << <<1 + Cardinality(under8), MinOf({ages[i] : i \in under8})>> >>
              ELSE <<>>
        g2 == IF over12 # {} /\ Len(g1) < num_groups
              THEN Append(g1, <<Cardinality(over12), MinOf({ages[i] : i \in over12})>>)
              ELSE g1
        used == IF Len(g2) = 0 THEN 0
                ELSE IF Len(g2) = 1 THEN g2[1][1] ELSE g2[1][1] + g2[2][1]
        remaining_size == total_size - used
        g3 == IF Len(g2) < num_groups /\ remaining_size > 0
              THEN Append(g2, <<remaining_size,
                                IF mid # {} THEN MinOf({ages[i] : i \in mid}) ELSE 14>>)
              ELSE g2
    IN  g3

(***************************************************************************)
(* The state as one record W: handlers are functions from W to W.          *)
(***************************************************************************)
Event(type, time, visitor, facility, idx) ==
    [type |-> type, time |-> time, visitor |-> visitor, facility |-> facility, idx |-> idx]

\* heapq.heappush: event_queue lists the pending events in insertion order
add_event(W, ev) == [W EXCEPT !.event_queue = Append(@, ev)]

GroupSize(W, v) == W.ents[v].group_size

get_total_waiting(W, f) == Len(W.queue_regular[f]) + Len(W.queue_express[f])

\* a minimum that breaks ties towards the end of the facility list
ShortestQueue_LastTie(W, eligible) ==
    CHOOSE f \in eligible : \A g \in eligible :
        \/ get_total_waiting(W, f) < get_total_waiting(W, g)
        \/ get_total_waiting(W, f) = get_total_waiting(W, g) /\ f >= g

\* min(eligible, key=get_total_waiting): the first minimum in list order
ShortestQueue(W, eligible) ==
    CHOOSE f \in eligible : \A g \in eligible :
        \/ get_total_waiting(W, f) < get_total_waiting(W, g)
        \/ get_total_waiting(W, f) = get_total_waiting(W, g) /\ f <= g

\* a Router whose filters let every age in
AgeAllowed_Any(e, f) == f \in Facilities

\* f.age_limit <= visitor.get_min_age()
AgeAllowed(e, f) == age_limit[f] <= e.min_age

\* Simulation.choose_facility; 0 stands for None
choose_facility(W, v, is_first_visit) ==
    LET e == W.ents[v]
        unvisited == Facilities \ e.visited_facilities
        remaining_facilities == {f \in unvisited : AgeAllowed(e, f)}
        family_first == {f \in unvisited : age_limit[f] = 0}
        teen == {f \in unvisited : adrenalin_level[f] >= 3 /\ AgeAllowed(e, f)}
        single == IF is_first_visit THEN {f \in unvisited : age_limit[f] >= 12}
                  ELSE {f \in unvisited : f # KidsPool}
        default == {f \in unvisited : AgeAllowed(e, f)}
    IN  IF remaining_facilities = {} THEN 0
        ELSE IF is_first_visit /\ e.kind \in {"Family", "SubGroup"} /\ family_first # {}
             THEN ShortestQueue(W, family_first)
        ELSE IF e.kind = "TeenGroup" /\ teen # {} THEN ShortestQueue(W, teen)
        ELSE IF e.kind = "SingleVisitor" /\ single # {} THEN ShortestQueue(W, single)
        ELSE IF default # {} THEN ShortestQueue(W, default)
        ELSE 0

(***************************************************************************)
(* try_start_facility                                                      *)
(***************************************************************************)
\* users_in_service.append(v); add_event(EndFacilityEvent(t + duration, v, f, idx))
StartService(W, f, v, t, duration, idx) ==
    add_event([W EXCEPT !.users_in_service[f] = Append(@, v)],
              Event("EndFacility", t + duration, v, f, idx))

RECURSIVE StartAll(_, _, _, _, _, _)
\* the k-th entity admitted by one call draws durs[1] when k is odd, durs[2] when even
StartAll(W, f, vs, t, durs, k) ==
    IF vs = <<>> THEN W
    ELSE StartAll(StartService(W, f, Head(vs), t, durs[IF k % 2 = 1 THEN 1 ELSE 2], 0),
                  f, Tail(vs), t, durs, k + 1)

\* Pipes_River.find_odd_group_in_queue: 1-based position in q, from position lo on; 0 for None
find_odd_group_in_queue(W, q, lo) ==
    LET odd == {i \in lo..Len(q) : GroupSize(W, q[i]) % 2 = 1}
    IN  IF odd = {} THEN 0 ELSE MinOf(odd)

CeilHalf(n) == (n + people_per_tube - 1) \div people_per_tube

MarkPair(W, g1, g2) ==
    LET W1 == [W EXCEPT !.ents[g1].is_shared_tube = TRUE, !.ents[g2].is_shared_tube = TRUE]
        W2 == [W1 EXCEPT !.ents[g1].tube_partner = g2]
    IN  [W2 EXCEPT !.ents[g2].tube_partner = g1]

\* the tubes are handed out without the comparison with total_tubes
HasTubes_NoLimit(occ, tubes_used) == occ >= 0 /\ tubes_used >= 0

\* occupied_tubes + tubes_used <= total_tubes
HasTubes(occ, tubes_used) == occ + tubes_used <= total_tubes

RECURSIVE process_entry(_, _)
\* Pipes_River.process_entry: <<W, entering_groups>>
process_entry(W, entering) ==
    LET f == PipesRiver
        qe == W.queue_express[f]
        qr == W.queue_regular[f]
        occ == W.occupied_tubes
        own == IF qe # <<>> THEN "express" ELSE "regular"
        q == IF qe # <<>> THEN qe ELSE qr
        group == q[1]
        SetOwn(X, nq) == IF own = "express" THEN [X EXCEPT !.queue_express[f] = nq]
                         ELSE [X EXCEPT !.queue_regular[f] = nq]
    IN  IF ~(occ < total_tubes) \/ (qe = <<>> /\ qr = <<>>) THEN <<W, entering>>
        ELSE IF GroupSize(W, group) % 2 = 0
        THEN LET tubes_used == GroupSize(W, group) \div people_per_tube
             IN  IF HasTubes(occ, tubes_used)
                 THEN process_entry([SetOwn(W, Tail(q)) EXCEPT !.occupied_tubes = occ + tubes_used],
                                    Append(entering, group))
                 ELSE <<W, entering>>
        ELSE LET odd_idx == find_odd_group_in_queue(W, q, 2)
                 odd_idx_regular == IF own = "express" THEN find_odd_group_in_queue(W, qr, 1) ELSE 0
             IN  IF odd_idx # 0
                 THEN \* the pair is found behind the head, in the head's own queue
                      LET group2 == q[odd_idx]
                          tubes_used == CeilHalf(GroupSize(W, group) + GroupSize(W, group2))
                          \* pop(), then remove(group2): its first occurrence behind the head
                          rest == RemoveFirst(Tail(q), group2)
                          \* insert(0, group1); insert(odd_idx, group2)
                          back == InsertAt(InsertAt(rest, 0, group), odd_idx - 1, group2)
                      IN  IF HasTubes(occ, tubes_used)
                          THEN process_entry(
                                   MarkPair([SetOwn(W, rest) EXCEPT !.occupied_tubes = occ + tubes_used],
                                            group, group2),
                                   entering \o <<group, group2>>)
                          ELSE <<SetOwn(W, back), entering>>
                 ELSE IF odd_idx_regular # 0
                 THEN \* express head paired with the first odd group of the regular queue
                      LET group2 == qr[odd_idx_regular]
                          tubes_used == CeilHalf(GroupSize(W, group) + GroupSize(W, group2))
                          restr == RemoveFirst(qr, group2)
                          backr == InsertAt(restr, odd_idx_regular - 1, group2)
                      IN  IF HasTubes(occ, tubes_used)
                          THEN process_entry(
                                   MarkPair([W EXCEPT !.queue_express[f] = Tail(qe),
                                                      !.queue_regular[f] = restr,
                                                      !.occupied_tubes = occ + tubes_used],
                                            group, group2),
                                   entering \o <<group, group2>>)
                          ELSE <<[W EXCEPT !.queue_express[f] = InsertAt(Tail(qe), 0, group),
                                           !.queue_regular[f] = backr], entering>>
                 ELSE <<W, entering>>

\* Pipes_River.release_tubes
release_tubes(W, v) ==
    LET e == W.ents[v]
        partner == e.tube_partner
        after ==
            IF e.is_shared_tube
            THEN IF partner # 0 /\ ~Contains(W.users_in_service[PipesRiver], partner)
                 THEN W.occupied_tubes - CeilHalf(e.group_size + GroupSize(W, partner))
                 ELSE W.occupied_tubes
            ELSE W.occupied_tubes - CeilHalf(e.group_size)
    IN  [W EXCEPT !.occupied_tubes = Max0(after)]

\* Single_Slide.get_available_slide: the first lane off cooldown, 0 for None
get_available_slide(W, t) ==
    LET free == {i \in 1..num_slides : WholeSeconds(t) - W.last_entry_times[i] >= safety_interval}
    IN  IF free = {} THEN 0 ELSE MinOf(free)

RECURSIVE SingleSlideStart(_, _)
SingleSlideStart(W, t) ==
    LET f == SingleSlide
        slide_idx == get_available_slide(W, t)
        from_express == W.queue_express[f] # <<>>
        visitor == IF from_express THEN W.queue_express[f][1] ELSE W.queue_regular[f][1]
        W1 == IF from_express THEN [W EXCEPT !.queue_express[f] = Tail(@)]
              ELSE [W EXCEPT !.queue_regular[f] = Tail(@)]
        \* record_entry
        W2 == [W1 EXCEPT !.last_entry_times[slide_idx] = WholeSeconds(t),
                         !.lane_entries[slide_idx] = Append(@, t)]
    IN  IF W.queue_express[f] = <<>> /\ W.queue_regular[f] = <<>> THEN W
        ELSE IF slide_idx = 0 THEN W
        ELSE SingleSlideStart(StartService(W2, f, visitor, t, activity_duration, 0), t)

RECURSIVE SumSizes(_, _)
SumSizes(W, q) == IF q = <<>> THEN 0 ELSE GroupSize(W, Head(q)) + SumSizes(W, Tail(q))

RECURSIVE TakePrefix(_, _, _, _)
\* one "take from this queue" loop of get_next_batch: how many groups it pops from q
\* when the batch already holds batch_size people
TakePrefix(W, q, batch_size, tube_size) ==
    IF q = <<>> \/ ~(batch_size < tube_size) THEN 0
    ELSE IF batch_size + GroupSize(W, Head(q)) <= tube_size
         THEN 1 + TakePrefix(W, Tail(q), batch_size + GroupSize(W, Head(q)), tube_size)
         ELSE 0

\* a batch leaves with whatever it holds
BatchFull_Any(batch_size, tube_size) == batch_size > 0 /\ batch_size <= tube_size

\* batch_size == tube_size
BatchFull(batch_size, tube_size) == batch_size = tube_size

\* Big_Pipes_Slide.get_next_batch / Small_Pipes_Slide.get_next_batch: <<W, batch>>
get_next_batch(W, f) ==
    LET tube_size == capacity[f]
        qe == W.queue_express[f]
        qr == W.queue_regular[f]
        k1 == TakePrefix(W, qe, 0, tube_size)
        size1 == SumSizes(W, SubSeq(qe, 1, k1))
        k2 == IF size1 = tube_size THEN 0 ELSE TakePrefix(W, qr, size1, tube_size)
        size2 == size1 + SumSizes(W, SubSeq(qr, 1, k2))
    IN  IF SumSizes(W, qe) + SumSizes(W, qr) < tube_size THEN <<W, <<>> >>
        ELSE IF BatchFull(size2, tube_size)
             THEN <<[W EXCEPT !.queue_express[f] = SubSeq(qe, k1 + 1, Len(qe)),
                              !.queue_regular[f] = SubSeq(qr, k2 + 1, Len(qr))],
                    SubSeq(qe, 1, k1) \o SubSeq(qr, 1, k2)>>
             \* rollback: every popped group goes back to the head of its queue, in order
             ELSE <<W, <<>> >>

BatchStart(W, f, t, durs) ==
    IF W.users_in_service[f] # <<>> THEN W
    ELSE LET r == get_next_batch(W, f)
         IN  StartAll(r[1], f, r[2], t, <<durs[1], durs[1]>>, 1)

\* can_enter without the comparison with the capacity
PoolCanEnter_NoLimit(W, f, group_size) == group_size >= 0

\* Waves_Pool.can_enter / Kids_Pool.can_enter
PoolCanEnter(W, f, group_size) ==
    SumSizes(W, W.users_in_service[f]) + group_size <= capacity[f]

FirstFitting(W, f, q) ==
    LET fit == {i \in 1..Len(q) : PoolCanEnter(W, f, GroupSize(W, q[i]))}
    IN  IF fit = {} THEN 0 ELSE MinOf(fit)

RECURSIVE PoolStart(_, _, _, _, _)
PoolStart(W, f, t, durs, k) ==
    LET qe == W.queue_express[f]
        qr == W.queue_regular[f]
        ie == FirstFitting(W, f, qe)
        ir == FirstFitting(W, f, qr)
        d == durs[IF k % 2 = 1 THEN 1 ELSE 2]
    IN  IF ie # 0
        THEN PoolStart(StartService([W EXCEPT !.queue_express[f] = RemoveFirst(qe, qe[ie])],
                                    f, qe[ie], t, d, 0), f, t, durs, k + 1)
        ELSE IF ir # 0
        THEN PoolStart(StartService([W EXCEPT !.queue_regular[f] = RemoveFirst(qr, qr[ir])],
                                    f, qr[ir], t, d, 0), f, t, durs, k + 1)
        ELSE W

\* the window without its buffer: tours refused during the lunch hour only
InRestrictedHours_LunchOnly(t) == T(13, 0) <= MinuteOfDay(t) * TicksPerMinute
                                  /\ MinuteOfDay(t) * TicksPerMinute < T(14, 0)

InRestrictedHours(t) == T(12, 20) <= MinuteOfDay(t) * TicksPerMinute
                        /\ MinuteOfDay(t) * TicksPerMinute < T(14, 0)

\* Snorkel_Tour.get_available_instructor, 0 for None
get_available_instructor(W, t) ==
    LET ok == {i \in 1..num_instructors :
                  W.instructor_states[i].available
                  /\ MinuteOfDay(t) * TicksPerMinute >= W.instructor_states[i].finish_time}
    IN  IF InRestrictedHours(t) \/ ok = {} THEN 0 ELSE MinOf(ok)

RECURSIVE FillTour(_, _, _, _)
\* the fill loop of the Snorkel branch: <<express groups taken, regular groups taken>>
FillTour(W, qe, qr, tour_size) ==
    IF ~(tour_size < tour_capacity) \/ (qe = <<>> /\ qr = <<>>) THEN <<0, 0>>
    ELSE IF qe # <<>>
         THEN IF tour_size + GroupSize(W, Head(qe)) <= tour_capacity
              THEN LET r == FillTour(W, Tail(qe), qr, tour_size + GroupSize(W, Head(qe)))
                   IN  <<r[1] + 1, r[2]>>
              ELSE <<0, 0>>
         ELSE IF tour_size + GroupSize(W, Head(qr)) <= tour_capacity
              THEN LET r == FillTour(W, qe, Tail(qr), tour_size + GroupSize(W, Head(qr)))
                   IN  <<r[1], r[2] + 1>>
              ELSE <<0, 0>>

start_tour(W, instructor_idx, t, tour_duration) ==
    [W EXCEPT !.instructor_states[instructor_idx].available = FALSE,
              !.instructor_states[instructor_idx].on_tour = TRUE,
              !.instructor_states[instructor_idx].finish_time =
                  MinuteOfDay(t) * TicksPerMinute + tour_duration]

RECURSIVE StartTourMembers(_, _, _, _, _)
StartTourMembers(W, vs, t, duration, idx) ==
    IF vs = <<>> THEN W
    ELSE StartTourMembers(StartService(W, Snorkel, Head(vs), t, duration, idx),
                          Tail(vs), t, duration, idx)

SnorkelStart(W, t, durs) ==
    LET f == Snorkel
        qe == W.queue_express[f]
        qr == W.queue_regular[f]
        instructor_idx == get_available_instructor(W, t)
        k == FillTour(W, qe, qr, 0)
        tour_group == SubSeq(qe, 1, k[1]) \o SubSeq(qr, 1, k[2])
        W1 == [W EXCEPT !.queue_express[f] = SubSeq(qe, k[1] + 1, Len(qe)),
                        !.queue_regular[f] = SubSeq(qr, k[2] + 1, Len(qr))]
    IN  IF instructor_idx = 0 \/ (qe = <<>> /\ qr = <<>>) THEN W
        ELSE IF tour_group = <<>> THEN W
        ELSE StartTourMembers(start_tour(W1, instructor_idx, t, durs[1]),
                              tour_group, t, durs[1], instructor_idx)

\* Simulation.try_start_facility
try_start_facility(W, f, t, durs) ==
    CASE f = PipesRiver ->
             LET r == process_entry(W, <<>>) IN StartAll(r[1], f, r[2], t, durs, 1)
      [] f = SingleSlide -> SingleSlideStart(W, t)
      [] f \in {BigPipes, SmallPipes} -> BatchStart(W, f, t, durs)
      [] f \in {WavePool, KidsPool} -> PoolStart(W, f, t, durs, 1)
      [] OTHER -> SnorkelStart(W, t, durs)

\* the set get_service_duration() of facility f draws from
ServiceDurations(f) ==
    CASE f = PipesRiver -> PipesRiverDurations
      [] f = SingleSlide -> {activity_duration}
      [] f = BigPipes -> BigPipesDurations
      [] f = SmallPipes -> SmallPipesDurations
      [] f = WavePool -> WavePoolDurations
      [] f = KidsPool -> KidsPoolDurations
      [] OTHER -> SnorkelDurations

\* the duration draws one try_start_facility call may consume: two where the
\* code draws per admitted entity, one where it draws once per batch or tour
DurationDraws(f) ==
    IF f \in {PipesRiver, WavePool, KidsPool}
    THEN ServiceDurations(f) \X ServiceDurations(f)
    ELSE {<<d, d>> : d \in ServiceDurations(f)}

(***************************************************************************)
(* Event handlers (Event.py)                                               *)
(***************************************************************************)
\* BookCompletion without the ratings.append line
BookCompletion_NoRating(W, v) ==
    [W EXCEPT !.visitors_completed = Append(@, v),
              !.total_entities_completed = @ + 1,
              !.total_people_completed = @ + W.ents[v].group_size]

\* the four lines every exit path repeats: the rating and the visitor are
\* appended and the completion counters go up by one entity and its group size
BookCompletion(W, v) ==
    [W EXCEPT !.ratings = Append(@, W.ents[v].rating),
              !.visitors_completed = Append(@, v),
              !.total_entities_completed = @ + 1,
              !.total_people_completed = @ + W.ents[v].group_size]

\* the same, after the photo purchase decided by the final rating
CompleteWithPhoto(W, v) ==
    BookCompletion([W EXCEPT !.total_revenue = @ + PhotoPrice(W.ents[v].rating)], v)

\* Simulation._complete_visitor
complete_visitor(W, v) == CompleteWithPhoto(W, v)

\* a Reception that names its first clerk, busy or not
get_available_clerk_First(W) == 1

\* Reception.get_available_clerk, 0 for None
get_available_clerk(W) ==
    LET free == {i \in 1..num_clerks : ~W.clerks_busy[i]}
    IN  IF free = {} THEN 0 ELSE MinOf(free)

\* the body the three arrival handlers share: the new entity is counted and
\* goes to a free clerk or to the reception queue
Arrive(W, t, entity, service) ==
    LET v == Len(W.ents) + 1
        W1 == [W EXCEPT !.clock = t,
                        !.ents = Append(@, entity),
                        !.total_entities_arrived = @ + 1,
                        !.total_people_arrived = @ + entity.group_size]
        clerk == get_available_clerk(W)
    IN  IF clerk # 0 /\ Len(W.queue_reception) = 0
        THEN add_event([W1 EXCEPT !.clerks_busy[clerk] = TRUE],
                       Event("EndReception", t + service, v, 0, clerk))
        ELSE [W1 EXCEPT !.queue_reception = Append(@, v)]

FamilyArrivalEvent_handle(W, ev, entity, service, gap) ==
    LET W1 == Arrive(W, ev.time, entity, service)
        next_time == ev.time + gap
    IN  IF HourOf(next_time) < 12
        THEN add_event(W1, Event("FamilyArrival", next_time, 0, 0, 0))
        ELSE W1

TeensGroupArrivalEvent_handle(W, ev, entity, service, gap) ==
    LET W1 == Arrive(W, ev.time, entity, service)
        next_time == ev.time + gap
    IN  IF HourOf(next_time) < 16
        THEN add_event(W1, Event("TeensGroupArrival", next_time, 0, 0, 0))
        ELSE W1

SingleGroupArrivalEvent_handle(W, ev, entity, service, gap) ==
    LET W1 == Arrive(W, ev.time, entity, service)
        next_time == ev.time + gap
    IN  IF HourOf(next_time) < 18
           \/ (HourOf(next_time) = 18 /\ MinuteOfDay(next_time) % 60 <= 30)
        THEN add_event(W1, Event("SingleGroupArrival", next_time, 0, 0, 0))
        ELSE W1

EntryRevenue(e) ==
    IF e.kind = "Family"
    THEN 2 * 150 + Len(e.kids_ages) * 75
         + (IF e.has_express_pass THEN (2 + Len(e.kids_ages)) * 50 ELSE 0)
    ELSE e.group_size * 150 + (IF e.has_express_pass THEN e.group_size * 50 ELSE 0)

EndReceptionEvent_handle(W, ev, service) ==
    LET v == ev.visitor
        t == ev.time
        W1 == [W EXCEPT !.clock = t,
                        !.clerks_busy[ev.idx] = FALSE,
                        !.total_entities_entered = @ + 1,
                        !.total_people_entered = @ + W.ents[v].group_size,
                        !.total_revenue = @ + EntryRevenue(W.ents[v])]
        first_facility == choose_facility(W1, v, TRUE)
        W2 == IF first_facility # 0
              THEN add_event(W1, Event("ArriveAtFacility", t, v, first_facility, 0))
              ELSE LET P == update_rating_negative(W1, v, 500)
                   IN  [P EXCEPT !.visitors_completed = Append(@, v),
                                 !.ratings = Append(@, P.ents[v].rating),
                                 !.total_entities_completed = @ + 1,
                                 !.total_people_completed = @ + P.ents[v].group_size]
    IN  IF Len(W2.queue_reception) > 0
        THEN add_event([W2 EXCEPT !.queue_reception = Tail(@),
                                  !.clerks_busy[ev.idx] = TRUE],
                       Event("EndReception", t + service, Head(W2.queue_reception), 0, ev.idx))
        ELSE W2

ArriveAtFacilityEvent_handle(W, ev, durs) ==
    LET v == ev.visitor
        f == ev.facility
        t == ev.time
        W0 == [W EXCEPT !.clock = t]
        W1 == IF W.ents[v].has_express_pass
              THEN [W0 EXCEPT !.queue_express[f] = Append(@, v)]
              ELSE [W0 EXCEPT !.queue_regular[f] = Append(@, v)]
        W2 == IF ~W.ents[v].has_express_pass
              THEN add_event(W1, Event("Abandonment", t + get_abandonment_threshold(W, v), v, f, 0))
              ELSE W1
    IN  try_start_facility(W2, f, t, durs)

\* Snorkel_Tour.finish_tour
finish_tour(W, instructor_idx, t) ==
    [W EXCEPT !.instructor_states[instructor_idx].on_tour = FALSE,
              !.instructor_states[instructor_idx].on_break = TRUE,
              !.instructor_states[instructor_idx].finish_time =
                  (MinuteOfDay(t) + BreakMinutes) * TicksPerMinute]

\* now >= clock.replace(hour, minute, second=0) of the entity's departure time
\* (the parent Family's for a SubGroup)
PastDeparture(W, v, t) ==
    LET e == W.ents[v]
        dep == IF e.kind = "SubGroup" THEN W.ents[e.parent_family].departure_time
               ELSE e.departure_time
    IN  dep # 0 /\ (t % TicksPerDay) >= dep * TicksPerMinute

\* Family.check_and_split: <<W, entities_to_process>>
check_and_split(W, v, split, num_groups) ==
    LET plan == SplitPlan(W.ents[v].kids_ages, num_groups)
        n == Len(W.ents)
        subs == [i \in 1..Len(plan) |-> NewSubGroup(W, v, plan[i][1], plan[i][2])]
    IN  IF ~split THEN <<W, <<v>> >>
        ELSE IF Len(plan) < 2 THEN <<[W EXCEPT !.ents[v].is_split = FALSE], <<v>> >>
        ELSE <<[W EXCEPT !.ents = [@ \o subs EXCEPT ![v].is_split = TRUE,
                                                    ![v].active_subgroups_count = Len(plan)]],
               [i \in 1..Len(plan) |-> n + i]>>

\* the exit branch of EndFacilityEvent.handle for one entity
ExitAfterRide(W, entity) ==
    LET e == W.ents[entity]
        original == IF e.kind = "Family" THEN entity ELSE e.parent_family
        W1 == IF e.kind = "SubGroup"
              THEN [W EXCEPT !.ents[original].active_subgroups_count = @ - 1]
              ELSE [W EXCEPT !.ents[original].active_subgroups_count = 0]
    IN  IF e.kind \in {"Family", "SubGroup"}
        THEN IF W1.ents[original].active_subgroups_count = 0
             THEN CompleteWithPhoto(W1, original)
             ELSE W1
        ELSE CompleteWithPhoto(W, entity)

InLunchHours(t) == 13 * 60 <= MinuteOfDay(t) /\ MinuteOfDay(t) < 15 * 60

RECURSIVE ProcessNext(_, _, _, _, _)
\* the "for entity in entities_to_process" loop of EndFacilityEvent.handle;
\* lunch[k] is 0 when the k-th entity does not eat, else the restaurant it picks
ProcessNext(W, entities, t, lunch, k) ==
    IF entities = <<>> THEN W
    ELSE LET entity == Head(entities)
             should_leave == PastDeparture(W, entity, t)
             next_facility == IF should_leave THEN 0 ELSE choose_facility(W, entity, FALSE)
             W1 == IF should_leave \/ next_facility = 0 THEN ExitAfterRide(W, entity)
                   ELSE IF InLunchHours(t) /\ lunch[k] # 0
                        THEN add_event(W, Event("ArriveAtRestaurant", t, entity, lunch[k], 0))
                        ELSE add_event(W, Event("ArriveAtFacility", t, entity, next_facility, 0))
         IN  ProcessNext(W1, Tail(entities), t, lunch, k + 1)

EndFacilityEvent_handle(W, ev, good, split, num_groups, lunch) ==
    LET v == ev.visitor
        f == ev.facility
        t == ev.time
        W1 == [W EXCEPT !.clock = t,
                        !.users_in_service[f] = RemoveFirst(@, v),
                        !.ents[v].visited_facilities = @ \cup {f}]
        W2 == IF f = PipesRiver THEN release_tubes(W1, v)
              ELSE IF f = Snorkel /\ ev.idx # 0
                   THEN add_event(finish_tour(W1, ev.idx, t),
                                  Event("InstructorBreakEnd", t + Minutes(BreakMinutes), 0, f, ev.idx))
                   ELSE W1
        W3 == IF good
              THEN update_rating_positive(W2, v, W2.ents[v].group_size, adrenalin_level[f])
              ELSE update_rating_negative(W2, v, 100)
        r == IF W3.ents[v].kind = "Family" THEN check_and_split(W3, v, split, num_groups)
             ELSE <<W3, <<v>> >>
    IN  ProcessNext(r[1], r[2], t, lunch, 1)

\* the "leave park" lines of AbandonmentEvent.handle: the visitor itself is booked
LeaveAfterAbandonment(W, v) ==
    LET W1 == [W EXCEPT !.total_revenue = @ + PhotoPrice(W.ents[v].rating)]
    IN  [W1 EXCEPT !.ratings = Append(@, W.ents[v].rating),
                   !.visitors_completed = Append(@, v),
                   !.total_entities_completed = @ + 1,
                   !.total_people_completed = @ + W.ents[v].group_size]

\* "move to next facility" of AbandonmentEvent.handle
MoveOnAfterAbandonment(W, v, t) ==
    LET next_facility == choose_facility(W, v, FALSE)
    IN  IF next_facility # 0
        THEN add_event(W, Event("ArriveAtFacility", t, v, next_facility, 0))
        ELSE LeaveAfterAbandonment(W, v)

\* AbandonmentEvent.handle without its in-queue check
AbandonmentEvent_handle_NoCheck(W, ev, buy) ==
    LET v == ev.visitor
        f == ev.facility
        t == ev.time
        W1 == [W EXCEPT !.clock = t,
                        !.queue_regular[f] = RemoveFirst(@, v),
                        !.queue_express[f] = RemoveFirst(@, v)]
        W2 == update_rating_negative(W1, v, 800)
    IN  IF W.ents[v].kind = "TeenGroup" /\ ~W2.ents[v].has_express_pass /\ buy
        THEN add_event([W2 EXCEPT !.ents[v].has_express_pass = TRUE,
                                  !.total_revenue = @ + 50 * W.ents[v].group_size],
                       Event("ArriveAtFacility", t, v, f, 0))
        ELSE MoveOnAfterAbandonment(W2, v, t)

\* AbandonmentEvent.handle with a pass sold at 50 whatever the group's size
AbandonmentEvent_handle_FlatPrice(W, ev, buy) ==
    LET v == ev.visitor
        f == ev.facility
        t == ev.time
        in_queue == Contains(W.queue_regular[f], v) \/ Contains(W.queue_express[f], v)
        W1 == IF Contains(W.queue_regular[f], v)
              THEN [W EXCEPT !.clock = t, !.queue_regular[f] = RemoveFirst(@, v)]
              ELSE [W EXCEPT !.clock = t, !.queue_express[f] = RemoveFirst(@, v)]
        W2 == update_rating_negative(W1, v, 800)
    IN  IF ~in_queue THEN [W EXCEPT !.clock = t]
        ELSE IF W.ents[v].kind = "TeenGroup" /\ ~W2.ents[v].has_express_pass /\ buy
             THEN add_event([W2 EXCEPT !.ents[v].has_express_pass = TRUE,
                                       !.total_revenue = @ + 50],
                            Event("ArriveAtFacility", t, v, f, 0))
             ELSE MoveOnAfterAbandonment(W2, v, t)

AbandonmentEvent_handle(W, ev, buy) ==
    LET v == ev.visitor
        f == ev.facility
        t == ev.time
        W0 == [W EXCEPT !.clock = t]
        visitor_in_regular == Contains(W.queue_regular[f], v)
        visitor_in_express == Contains(W.queue_express[f], v)
        W1 == IF visitor_in_regular
              THEN [W0 EXCEPT !.queue_regular[f] = RemoveFirst(@, v)]
              ELSE [W0 EXCEPT !.queue_express[f] = RemoveFirst(@, v)]
        W2 == update_rating_negative(W1, v, 800)
    IN  IF ~visitor_in_regular /\ ~visitor_in_express THEN W0
        ELSE IF W.ents[v].kind = "TeenGroup"
             THEN \* TeenGroup.handle_abandonment
                  IF ~W2.ents[v].has_express_pass /\ buy
                  THEN add_event([W2 EXCEPT !.ents[v].has_express_pass = TRUE,
                                            !.total_revenue = @ + 50 * W.ents[v].group_size],
                                 Event("ArriveAtFacility", t, v, f, 0))
                  ELSE MoveOnAfterAbandonment(W2, v, t)
             ELSE MoveOnAfterAbandonment(W2, v, t)

\* Restaurant.get_available_station (one station per restaurant), 0 for None
get_available_station(W, r) == IF W.stations_busy[r] THEN 0 ELSE 1

ArriveAtRestaurantEvent_handle(W, ev, total_time) ==
    LET v == ev.visitor
        r == ev.facility
        t == ev.time
        \* enter_queue
        W1 == [W EXCEPT !.clock = t, !.rest_queue[r] = Append(@, v)]
    IN  IF get_available_station(W1, r) # 0
        THEN add_event([W1 EXCEPT !.stations_busy[r] = TRUE],
                       Event("EndRestaurantService", t + total_time, v, r, 1))
        ELSE W1

\* Pizza/Burger/Salad get_price
get_price(W, r, v) ==
    CASE r = Pizza -> IF W.ents[v].group_size = 1 THEN 40 ELSE 100
      [] r = Burger -> 100 * W.ents[v].group_size
      [] OTHER -> 65 * W.ents[v].group_size

EndRestaurantServiceEvent_handle(W, ev, bad, meal_duration, total_time) ==
    LET v == ev.visitor
        r == ev.facility
        t == ev.time
        W1 == [W EXCEPT !.clock = t,
                        !.stations_busy[r] = FALSE,
                        !.total_revenue = @ + get_price(W, r, v)]
        W2 == IF bad THEN update_rating_negative(W1, v, 800) ELSE W1
        W3 == add_event(W2, Event("EndMeal", t + meal_duration, v, 0, 0))
    IN  IF Len(W3.rest_queue[r]) > 0
        THEN add_event([W3 EXCEPT !.rest_queue[r] = Tail(@), !.stations_busy[r] = TRUE],
                       Event("EndRestaurantService", t + total_time, Head(W3.rest_queue[r]), r, 1))
        ELSE W3

\* both exit branches of EndMealEvent.handle
ExitAfterMeal(W, v) ==
    LET e == W.ents[v]
        original_family == IF e.kind = "Family" THEN v ELSE e.parent_family
        W1 == [W EXCEPT !.ents[original_family].active_subgroups_count = @ - 1]
    IN  IF e.kind \in {"Family", "SubGroup"}
        THEN IF W1.ents[original_family].active_subgroups_count = 0
             THEN CompleteWithPhoto(W1, original_family)
             ELSE W1
        ELSE CompleteWithPhoto(W, v)

EndMealEvent_handle(W, ev) ==
    LET v == ev.visitor
        t == ev.time
        W0 == [W EXCEPT !.clock = t]
        next_facility == choose_facility(W0, v, FALSE)
    IN  IF PastDeparture(W0, v, t) THEN ExitAfterMeal(W0, v)
        ELSE IF next_facility = 0 THEN ExitAfterMeal(W0, v)
        ELSE add_event(W0, Event("ArriveAtFacility", t, v, next_facility, 0))

\* Snorkel_Tour.finish_break, with the lunch end event its caller schedules
InstructorBreakEndEvent_handle(W, ev, durs) ==
    LET i == ev.idx
        t == ev.time
        W0 == [W EXCEPT !.clock = t, !.instructor_states[i].on_break = FALSE]
        remaining_lunch_time == 14 * 60 - MinuteOfDay(t)
        W1 == [W0 EXCEPT !.instructor_states[i].on_lunch = TRUE,
                         !.instructor_states[i].finish_time = T(14, 0)]
    IN  IF HourOf(t) = 13
        THEN IF remaining_lunch_time > 0
             THEN add_event(W1, Event("InstructorLunchEnd", t + Minutes(remaining_lunch_time),
                                      0, ev.facility, i))
             ELSE W1
        ELSE try_start_facility([W0 EXCEPT !.instructor_states[i].available = TRUE],
                                ev.facility, t, durs)

\* Snorkel_Tour.finish_lunch, then try_start_facility
InstructorLunchEndEvent_handle(W, ev, durs) ==
    try_start_facility([W EXCEPT !.clock = ev.time,
                                 !.instructor_states[ev.idx].on_lunch = FALSE,
                                 !.instructor_states[ev.idx].available = TRUE],
                       ev.facility, ev.time, durs)

\* EndOfDayEvent.handle: every queue closes its day (one more entry in its
\* daily averages), then the next day's arrivals and closure are scheduled
EndOfDayEvent_handle(W, ev) ==
    LET t == ev.time
        next_day_start == DayStart(t) + TicksPerDay + T(9, 0)
        next_day_end == DayStart(t) + TicksPerDay + T(19, 0)
        W1 == [W EXCEPT !.clock = t, !.daily_entries = @ + 1]
        W2 == add_event(W1, Event("FamilyArrival", next_day_start, 0, 0, 0))
        W3 == add_event(W2, Event("SingleGroupArrival", next_day_start, 0, 0, 0))
        W4 == add_event(W3, Event("TeensGroupArrival", next_day_start + T(1, 0), 0, 0, 0))
    IN  add_event(W4, Event("EndOfDay", next_day_end, 0, 0, 0))

RECURSIVE CloseList(_, _)
\* force_close_park's inner loops over one list of visitors
CloseList(W, vs) ==
    IF vs = <<>> THEN W
    ELSE CloseList(IF Contains(W.visitors_completed, Head(vs)) THEN W
                   ELSE complete_visitor(W, Head(vs)),
                   Tail(vs))

RECURSIVE CloseFacilities(_, _)
CloseFacilities(W, f) ==
    IF f > Snorkel THEN W
    ELSE CloseFacilities(
             CloseList(W, W.users_in_service[f] \o W.queue_regular[f] \o W.queue_express[f]),
             f + 1)

\* a park that closes without sending anybody home
force_close_park_Nothing(W) == [W EXCEPT !.clock = W.clock]

\* Simulation.force_close_park
force_close_park(W) == CloseFacilities(W, PipesRiver)

(***************************************************************************)
(* The loop's dispatch, as a function of the values the draws return        *)
(***************************************************************************)
\* event.handle(self) of run()'s loop for the world W the event was popped from,
\* with the values d the handler's random draws return
HandleWith(W, ev, d) ==
    CASE ev.type = "FamilyArrival" ->
             FamilyArrivalEvent_handle(W, ev, d.entity, d.service, d.gap)
      [] ev.type = "TeensGroupArrival" ->
             TeensGroupArrivalEvent_handle(W, ev, d.entity, d.service, d.gap)
      [] ev.type = "SingleGroupArrival" ->
             SingleGroupArrivalEvent_handle(W, ev, d.entity, d.service, d.gap)
      [] ev.type = "EndReception" -> EndReceptionEvent_handle(W, ev, d.service)
      [] ev.type = "ArriveAtFacility" -> ArriveAtFacilityEvent_handle(W, ev, d.durs[ev.facility])
      [] ev.type = "EndFacility" ->
             EndFacilityEvent_handle(W, ev, d.good, d.split, d.num_groups, d.lunch)
      [] ev.type = "Abandonment" -> AbandonmentEvent_handle(W, ev, d.buy)
      [] ev.type = "ArriveAtRestaurant" -> ArriveAtRestaurantEvent_handle(W, ev, d.total_time)
      [] ev.type = "EndRestaurantService" ->
             EndRestaurantServiceEvent_handle(W, ev, d.bad, d.meal, d.total_time)
      [] ev.type = "EndMeal" -> EndMealEvent_handle(W, ev)
      [] ev.type = "InstructorBreakEnd" -> InstructorBreakEndEvent_handle(W, ev, d.durs[Snorkel])
      [] ev.type = "InstructorLunchEnd" -> InstructorLunchEndEvent_handle(W, ev, d.durs[Snorkel])
      [] OTHER -> EndOfDayEvent_handle(W, ev)

\* an inter-arrival time that takes the stream out of its arrival window
LongGap == T(10, 0)

\* every draw at one fixed value: the first outcome of each yes/no draw, the
\* shortest duration of each sampler that is not negative, an arrival stream that ends
FixedDraws(type) ==
    [entity |-> CASE type = "FamilyArrival" ->
                         NewFamily(CHOOSE a \in KidsAgesChoices : TRUE,
                                   MinOf(FamilyDepartures), FALSE)
                  [] type = "TeensGroupArrival" -> NewTeenGroup(MinOf(TeenSizes), FALSE)
                  [] OTHER -> NewSingleVisitor(MinOf(SingleAges), FALSE),
     service |-> MinOf(ReceptionDurations),
     gap |-> LongGap,
     durs |-> [f \in Facilities |-> <<MinOf(ServiceDurations(f) \cap Nat), MinOf(ServiceDurations(f) \cap Nat)>>],
     good |-> TRUE, split |-> FALSE, num_groups |-> 2, lunch |-> [k \in 1..3 |-> 0],
     buy |-> FALSE, bad |-> FALSE, meal |-> MinOf(MealDurations),
     total_time |-> MinOf(RestaurantTimes)]

HandleEvent(W, ev) == HandleWith(W, ev, FixedDraws(ev.type))

(***************************************************************************)
(* Queue.py: a QueueServer.  Times are ticks; an average is kept as the    *)
(* fraction <<numerator, denominator>> the code divides: the integral of   *)
(* the length is in visitors * ticks and active_hours in hours, the        *)
(* waiting times are in ticks and their mean in minutes.                   *)
(***************************************************************************)
\* QueueServer.__init__
QueueServer ==
    [server_queue |-> <<>>, active_hours |-> 10, waiting_times |-> <<>>,
     total_queue_length_time |-> 0, queue_lengths |-> <<0>>, queue_change_times |-> <<>>,
     daily_avg_queue_lengths |-> <<>>, daily_avg_waiting_times |-> <<>>]

\* QueueServer.record_queue_length
record_queue_length(Q, current_time) ==
    LET integral ==
            IF Q.queue_lengths # <<>> /\ Q.queue_change_times # <<>>
            THEN Q.total_queue_length_time
                     + Q.queue_lengths[Len(Q.queue_lengths)]
                         * (current_time - Q.queue_change_times[Len(Q.queue_change_times)])
            ELSE Q.total_queue_length_time
    IN  [Q EXCEPT !.total_queue_length_time = integral,
                  !.queue_change_times = Append(@, current_time),
                  !.queue_lengths = Append(@, Len(Q.server_queue))]

\* calc_daily_statistics without the reset of the day's counters
calc_daily_statistics_NoReset(Q) ==
    [Q EXCEPT !.daily_avg_queue_lengths =
                  Append(@, <<Q.total_queue_length_time, Q.active_hours * T(1, 0)>>),
              !.daily_avg_waiting_times = Append(@, <<0, 1>>)]

\* QueueServer.calc_daily_statistics
calc_daily_statistics(Q) ==
    LET RECURSIVE Sum(_)
        Sum(s) == IF s = <<>> THEN 0 ELSE s[1] + Sum(Tail(s))
        daily_avg_length == IF Q.active_hours > 0
                            THEN <<Q.total_queue_length_time, Q.active_hours * T(1, 0)>>
                            ELSE <<0, 1>>
        daily_avg_wait == IF Q.waiting_times # <<>>
                          THEN <<Sum(Q.waiting_times), Len(Q.waiting_times) * TicksPerMinute>>
                          ELSE <<0, 1>>
    IN  [Q EXCEPT !.daily_avg_queue_lengths = Append(@, daily_avg_length),
                  !.daily_avg_waiting_times = Append(@, daily_avg_wait),
                  !.total_queue_length_time = 0,
                  !.queue_change_times = <<>>,
                  !.queue_lengths = <<0>>,
                  !.waiting_times = <<>>]


(***************************************************************************)
(* State                                                                   *)
(***************************************************************************)
VARIABLES
    pc,                       \* "init": constructed; "running": in run()'s loop; "done": run() returned
    clock,
    event_queue,
    ents,
    clerks_busy,
    queue_reception,
    queue_regular,
    queue_express,
    users_in_service,
    occupied_tubes,
    last_entry_times,
    instructor_states,
    rest_queue,
    stations_busy,
    total_people_arrived,
    total_entities_arrived,
    total_people_entered,
    total_entities_entered,
    total_people_completed,
    total_entities_completed,
    total_revenue,
    ratings,
    visitors_completed,
    daily_entries,            \* the length of every queue's daily_avg_* lists
    lane_entries,             \* per Single Slide lane, the clock of each record_entry so far
    draws_used,               \* how many draws of the run took their second outcome
    queue_server,             \* a QueueServer followed on its own: its queue and its
                              \* statistics (the runs of the park leave it as constructed)
    script,                   \* what the arrival streams' draws return in this run, and
                              \* the time up to which the run is followed
    last_event                \* the event the loop popped last; fifo: it was the earliest
                              \* inserted of the events with the smallest time; in_queue:
                              \* an Abandonment found its visitor in a queue of its facility

vars == <<pc, clock, event_queue, ents, clerks_busy, queue_reception, queue_regular,
          queue_express, users_in_service, occupied_tubes, last_entry_times,
          instructor_states, rest_queue, stations_busy, total_people_arrived,
          total_entities_arrived, total_people_entered, total_entities_entered,
          total_people_completed, total_entities_completed, total_revenue, ratings,
          visitors_completed, daily_entries, lane_entries, draws_used, script, last_event,
          queue_server>>

World ==
    [clock |-> clock, event_queue |-> event_queue, ents |-> ents,
     clerks_busy |-> clerks_busy, queue_reception |-> queue_reception,
     queue_regular |-> queue_regular, queue_express |-> queue_express,
     users_in_service |-> users_in_service, occupied_tubes |-> occupied_tubes,
     last_entry_times |-> last_entry_times, instructor_states |-> instructor_states,
     rest_queue |-> rest_queue, stations_busy |-> stations_busy,
     total_people_arrived |-> total_people_arrived,
     total_entities_arrived |-> total_entities_arrived,
     total_people_entered |-> total_people_entered,
     total_entities_entered |-> total_entities_entered,
     total_people_completed |-> total_people_completed,
     total_entities_completed |-> total_entities_completed,
     total_revenue |-> total_revenue, ratings |-> ratings,
     visitors_completed |-> visitors_completed, daily_entries |-> daily_entries,
     lane_entries |-> lane_entries]

SetWorld(W) ==
    /\ clock' = W.clock
    /\ event_queue' = W.event_queue
    /\ ents' = W.ents
    /\ clerks_busy' = W.clerks_busy
    /\ queue_reception' = W.queue_reception
    /\ queue_regular' = W.queue_regular
    /\ queue_express' = W.queue_express
    /\ users_in_service' = W.users_in_service
    /\ occupied_tubes' = W.occupied_tubes
    /\ last_entry_times' = W.last_entry_times
    /\ instructor_states' = W.instructor_states
    /\ rest_queue' = W.rest_queue
    /\ stations_busy' = W.stations_busy
    /\ total_people_arrived' = W.total_people_arrived
    /\ total_entities_arrived' = W.total_entities_arrived
    /\ total_people_entered' = W.total_people_entered
    /\ total_entities_entered' = W.total_entities_entered
    /\ total_people_completed' = W.total_people_completed
    /\ total_entities_completed' = W.total_entities_completed
    /\ total_revenue' = W.total_revenue
    /\ ratings' = W.ratings
    /\ visitors_completed' = W.visitors_completed
    /\ daily_entries' = W.daily_entries
    /\ lane_entries' = W.lane_entries

NoEvent == [type |-> "none", time |-> 0, visitor |-> 0, facility |-> 0, idx |-> 0,
            fifo |-> TRUE, in_queue |-> FALSE]

\* one arrival of a script: the entity created, its service time at the clerk
\* and the time to the stream's next arrival
Arrival(entity, service, gap) == [entity |-> entity, service |-> service, gap |-> gap]

\* no arrival is scripted: every arrival draws from the sets above, and the run is
\* followed to its end
NoScript == [Family |-> <<>>, TeenGroup |-> <<>>, SingleVisitor |-> <<>>,
             stop |-> StartTime, until |-> end_time, draws_used |-> 0]

\* Simulation.__init__ with _schedule_initial_arrivals
Init ==
    /\ pc = "init"
    /\ clock = StartTime
    /\ event_queue = <<Event("FamilyArrival", StartTime, 0, 0, 0),
                       Event("TeensGroupArrival", StartTime + T(1, 0), 0, 0, 0),
                       Event("SingleGroupArrival", StartTime, 0, 0, 0)>>
    /\ ents = <<>>
    /\ clerks_busy = [i \in 1..num_clerks |-> FALSE]
    /\ queue_reception = <<>>
    /\ queue_regular = [f \in Facilities |-> <<>>]
    /\ queue_express = [f \in Facilities |-> <<>>]
    /\ users_in_service = [f \in Facilities |-> <<>>]
    /\ occupied_tubes = 0
    /\ last_entry_times = [i \in 1..num_slides |-> -1000 * TicksPerMinute]
    /\ instructor_states = [i \in 1..num_instructors |->
                               [available |-> TRUE, on_tour |-> FALSE, on_break |-> FALSE,
                                on_lunch |-> FALSE, finish_time |-> 0]]
    /\ rest_queue = [r \in Restaurants |-> <<>>]
    /\ stations_busy = [r \in Restaurants |-> FALSE]
    /\ total_people_arrived = 0
    /\ total_entities_arrived = 0
    /\ total_people_entered = 0
    /\ total_entities_entered = 0
    /\ total_people_completed = 0
    /\ total_entities_completed = 0
    /\ total_revenue = 0
    /\ ratings = <<>>
    /\ visitors_completed = <<>>
    /\ daily_entries = 0
    /\ lane_entries = [i \in 1..num_slides |-> <<>>]
    /\ draws_used = 0
    /\ script = NoScript
    /\ last_event = NoEvent
    /\ queue_server = QueueServer

(***************************************************************************)
(* run(): the loop pops the smallest event.  Event.__lt__ orders events of *)
(* equal time by id(), the objects' addresses, so which of them is popped  *)
(* first is any of them.                                                   *)
(***************************************************************************)
MinTime(q) == MinOf({q[i].time : i \in 1..Len(q)})
Poppable(q) == {i \in 1..Len(q) : \A j \in 1..Len(q) : q[i].time <= q[j].time}

\* the loop's guard and the check after the pop: the event at position i is dispatched
Dispatchable(i, type) ==
    /\ pc = "running"
    /\ event_queue # <<>>
    /\ clock < end_time
    /\ event_queue[i].type = type
    /\ event_queue[i].time <= end_time
    /\ event_queue[i].time <= script.until
    /\ i \in Poppable(event_queue)

\* heappop, then event.handle
Popped(i) == [World EXCEPT !.event_queue = RemoveAt(@, i), !.clock = event_queue[i].time]

Off(b) == IF b THEN 1 ELSE 0

\* the in-queue check of AbandonmentEvent.handle, for the event about to be handled
InQueueOfFacility(ev) ==
    /\ ev.type = "Abandonment"
    /\ \/ Contains(queue_regular[ev.facility], ev.visitor)
       \/ Contains(queue_express[ev.facility], ev.visitor)

\* what a pair of duration draws costs: each draw that is not the facility's shortest
\* duration from zero up
DurationCost(f, durs) ==
    IF f \in {PipesRiver, WavePool, KidsPool}
    THEN Off(durs[1] # MinOf(ServiceDurations(f) \cap Nat)) + Off(durs[2] # MinOf(ServiceDurations(f) \cap Nat))
    ELSE Off(durs[1] # MinOf(ServiceDurations(f) \cap Nat))

Dispatch(i, W, cost) ==
    /\ draws_used + cost <= MaxBranchingDraws
    /\ draws_used' = draws_used + cost
    /\ \E after \in {W} : SetWorld(after)
    /\ last_event' = [type |-> event_queue[i].type, time |-> event_queue[i].time,
                      visitor |-> event_queue[i].visitor,
                      facility |-> event_queue[i].facility, idx |-> event_queue[i].idx,
                      fifo |-> (i = MinOf(Poppable(event_queue))),
                      in_queue |-> InQueueOfFacility(event_queue[i])]
    /\ pc' = pc
    /\ script' = script
    /\ queue_server' = queue_server

CountKind(kind) == Cardinality({v \in 1..Len(ents) : ents[v].kind = kind})
\* the stream's next inter-arrival time; past the bound it leaves the window
GapDraws(kind) == IF CountKind(kind) < MaxExtraArrivals THEN ArrivalGaps \cup {LongGap}
                  ELSE {LongGap}

\* run() up to its loop: the first EndOfDayEvent is scheduled
Run ==
    /\ pc = "init"
    /\ LET first_day_end == DayStart(clock) + T(19, 0)
           at == IF first_day_end <= clock THEN first_day_end + TicksPerDay ELSE first_day_end
       IN  SetWorld(add_event(World, Event("EndOfDay", at, 0, 0, 0)))
    /\ pc' = "running"
    /\ UNCHANGED <<draws_used, script, last_event, queue_server>>

\* the entities an arrival handler can create
NewEntities(kind) ==
    CASE kind = "Family" -> {NewFamily(ages, dep, x) : ages \in KidsAgesChoices,
                                                       dep \in FamilyDepartures,
                                                       x \in FamilyExpressDraws}
      [] kind = "TeenGroup" -> {NewTeenGroup(size, x) : size \in TeenSizes,
                                                        x \in TeenExpressDraws}
      [] OTHER -> {NewSingleVisitor(age, x) : age \in SingleAges, x \in SingleExpressDraws}

\* the draws of the stream's next arrival: the script's entry while it has one
ArrivalDraws(kind) ==
    IF CountKind(kind) < Len(script[kind]) THEN {script[kind][CountKind(kind) + 1]}
    ELSE {Arrival(e, service, gap) : e \in NewEntities(kind), service \in ReceptionDurations,
                                     gap \in GapDraws(kind)}

FamilyArrivalEvent ==
    \E i \in 1..Len(event_queue) :
        /\ Dispatchable(i, "FamilyArrival")
        /\ \E d \in ArrivalDraws("Family") :
               Dispatch(i, FamilyArrivalEvent_handle(Popped(i), event_queue[i],
                                                     d.entity, d.service, d.gap), 0)

TeensGroupArrivalEvent ==
    \E i \in 1..Len(event_queue) :
        /\ Dispatchable(i, "TeensGroupArrival")
        /\ \E d \in ArrivalDraws("TeenGroup") :
               Dispatch(i, TeensGroupArrivalEvent_handle(Popped(i), event_queue[i],
                                                         d.entity, d.service, d.gap), 0)

SingleGroupArrivalEvent ==
    \E i \in 1..Len(event_queue) :
        /\ Dispatchable(i, "SingleGroupArrival")
        /\ \E d \in ArrivalDraws("SingleVisitor") :
               Dispatch(i, SingleGroupArrivalEvent_handle(Popped(i), event_queue[i],
                                                          d.entity, d.service, d.gap), 0)

EndReceptionEvent ==
    \E i \in 1..Len(event_queue) :
        /\ Dispatchable(i, "EndReception")
        /\ \E service \in ReceptionDurations :
               Dispatch(i, EndReceptionEvent_handle(Popped(i), event_queue[i], service), 0)

ArriveAtFacilityEvent ==
    \E i \in 1..Len(event_queue) :
        /\ Dispatchable(i, "ArriveAtFacility")
        /\ \E durs \in DurationDraws(event_queue[i].facility) :
               Dispatch(i, ArriveAtFacilityEvent_handle(Popped(i), event_queue[i], durs),
                        DurationCost(event_queue[i].facility, durs))

\* the lunch decisions of the n (at most three) entities an EndFacility processes
LunchChoices(t, n) ==
    IF InLunchHours(t)
    THEN {l \in [1..3 -> {0} \cup RestaurantChoices] : \A k \in 1..3 : k > n => l[k] = 0}
    ELSE {[k \in 1..3 |-> 0]}

\* how many entities check_and_split hands to the loop of EndFacilityEvent.handle
NumToProcess(v, split, num_groups) ==
    LET n == Len(SplitPlan(ents[v].kids_ages, num_groups))
    IN  IF split /\ n >= 2 THEN n ELSE 1

EndFacilityEvent ==
    \E i \in 1..Len(event_queue) :
        /\ Dispatchable(i, "EndFacility")
        /\ LET is_family == ents[event_queue[i].visitor].kind = "Family"
           IN  \E good \in GoodExperienceDraws,
                  split \in (IF is_family THEN SplitDraws ELSE {FALSE}) :
                   \E num_groups \in (IF split THEN NumSplitGroups ELSE {2}) :
                       \E lunch \in LunchChoices(event_queue[i].time,
                                                  NumToProcess(event_queue[i].visitor,
                                                               split, num_groups)) :
                           Dispatch(i, EndFacilityEvent_handle(Popped(i), event_queue[i],
                                                               good, split, num_groups, lunch),
                                    Off(~good) + Off(split) + Off(lunch[1] # 0)
                                    + Off(lunch[2] # 0) + Off(lunch[3] # 0))

AbandonmentEvent ==
    \E i \in 1..Len(event_queue) :
        /\ Dispatchable(i, "Abandonment")
        /\ \E buy \in (IF /\ ents[event_queue[i].visitor].kind = "TeenGroup"
                          /\ Contains(queue_regular[event_queue[i].facility],
                                      event_queue[i].visitor)
                       THEN BuyExpressDraws ELSE {FALSE}) :
               Dispatch(i, AbandonmentEvent_handle(Popped(i), event_queue[i], buy), Off(buy))

ArriveAtRestaurantEvent ==
    \E i \in 1..Len(event_queue) :
        /\ Dispatchable(i, "ArriveAtRestaurant")
        /\ \E total_time \in RestaurantTimes :
               Dispatch(i, ArriveAtRestaurantEvent_handle(Popped(i), event_queue[i], total_time), 0)

EndRestaurantServiceEvent ==
    \E i \in 1..Len(event_queue) :
        /\ Dispatchable(i, "EndRestaurantService")
        /\ \E bad \in BadMealDraws, meal \in MealDurations, total_time \in RestaurantTimes :
               Dispatch(i, EndRestaurantServiceEvent_handle(Popped(i), event_queue[i],
                                                            bad, meal, total_time), 0)

EndMealEvent ==
    \E i \in 1..Len(event_queue) :
        /\ Dispatchable(i, "EndMeal")
        /\ Dispatch(i, EndMealEvent_handle(Popped(i), event_queue[i]), 0)

InstructorBreakEndEvent ==
    \E i \in 1..Len(event_queue) :
        /\ Dispatchable(i, "InstructorBreakEnd")
        /\ \E durs \in DurationDraws(Snorkel) :
               Dispatch(i, InstructorBreakEndEvent_handle(Popped(i), event_queue[i], durs),
                        DurationCost(Snorkel, durs))

InstructorLunchEndEvent ==
    \E i \in 1..Len(event_queue) :
        /\ Dispatchable(i, "InstructorLunchEnd")
        /\ \E durs \in DurationDraws(Snorkel) :
               Dispatch(i, InstructorLunchEndEvent_handle(Popped(i), event_queue[i], durs),
                        DurationCost(Snorkel, durs))

EndOfDayEvent ==
    \E i \in 1..Len(event_queue) :
        /\ Dispatchable(i, "EndOfDay")
        /\ Dispatch(i, EndOfDayEvent_handle(Popped(i), event_queue[i]), 0)

\* the loop ends (its guard fails, or the popped event lies past end_time and is
\* dropped) and force_close_park runs
Finish ==
    /\ pc = "running"
    /\ LET guard == event_queue # <<>> /\ clock < end_time
           i == CHOOSE j \in Poppable(event_queue) : TRUE
           late == guard /\ MinTime(event_queue) > end_time
       IN  /\ ~guard \/ late
           /\ \E after \in {force_close_park(
                  IF late THEN [World EXCEPT !.event_queue = RemoveAt(@, i)] ELSE World)} :
                  SetWorld(after)
    /\ pc' = "done"
    /\ UNCHANGED <<draws_used, script, last_event, queue_server>>

Next ==
    \/ Run
    \/ FamilyArrivalEvent
    \/ TeensGroupArrivalEvent
    \/ SingleGroupArrivalEvent
    \/ EndReceptionEvent
    \/ ArriveAtFacilityEvent
    \/ EndFacilityEvent
    \/ AbandonmentEvent
    \/ ArriveAtRestaurantEvent
    \/ EndRestaurantServiceEvent
    \/ EndMealEvent
    \/ InstructorBreakEndEvent
    \/ InstructorLunchEndEvent
    \/ EndOfDayEvent
    \/ Finish

Spec == Init /\ [][Next]_vars

(***************************************************************************)
(* A busy morning.  The second specification starts where run()'s loop     *)
(* stands after a scripted beginning of the day: the arrivals of the       *)
(* script have been handled, with the group sizes, service times and       *)
(* inter-arrival times the script gives, and every other draw at its fixed *)
(* value.  From there on the loop runs as in Spec.                         *)
(***************************************************************************)
\* Simulation.__init__ and run() up to the loop
AtLoopStart ==
    [clock |-> StartTime,
     event_queue |-> <<Event("FamilyArrival", StartTime, 0, 0, 0),
                       Event("TeensGroupArrival", StartTime + T(1, 0), 0, 0, 0),
                       Event("SingleGroupArrival", StartTime, 0, 0, 0),
                       Event("EndOfDay", DayStart(StartTime) + T(19, 0), 0, 0, 0)>>,
     ents |-> <<>>,
     clerks_busy |-> [i \in 1..num_clerks |-> FALSE],
     queue_reception |-> <<>>,
     queue_regular |-> [f \in Facilities |-> <<>>],
     queue_express |-> [f \in Facilities |-> <<>>],
     users_in_service |-> [f \in Facilities |-> <<>>],
     occupied_tubes |-> 0,
     last_entry_times |-> [i \in 1..num_slides |-> -1000 * TicksPerMinute],
     instructor_states |-> [i \in 1..num_instructors |->
                               [available |-> TRUE, on_tour |-> FALSE, on_break |-> FALSE,
                                on_lunch |-> FALSE, finish_time |-> 0]],
     rest_queue |-> [r \in Restaurants |-> <<>>],
     stations_busy |-> [r \in Restaurants |-> FALSE],
     total_people_arrived |-> 0, total_entities_arrived |-> 0,
     total_people_entered |-> 0, total_entities_entered |-> 0,
     total_people_completed |-> 0, total_entities_completed |-> 0,
     total_revenue |-> 0, ratings |-> <<>>, visitors_completed |-> <<>>,
     daily_entries |-> 0,
     lane_entries |-> [i \in 1..num_slides |-> <<>>]]

Seconds(n) == n * TicksPerSecond
HalfSecond == TicksPerSecond \div 2

RECURSIVE Repeat(_, _)
Repeat(x, n) == IF n = 0 THEN <<>> ELSE <<x>> \o Repeat(x, n - 1)

\* the draws of the handler of ev under script S: the n-th arrival of a stream
\* takes the n-th entry of the stream's list
ScriptDraws(S, W, ev) ==
    LET kind == CASE ev.type = "FamilyArrival" -> "Family"
                  [] ev.type = "TeensGroupArrival" -> "TeenGroup"
                  [] ev.type = "SingleGroupArrival" -> "SingleVisitor"
                  [] OTHER -> "none"
        n == Cardinality({v \in 1..Len(W.ents) : W.ents[v].kind = kind}) + 1
        fixed == FixedDraws(ev.type)
    IN  IF kind # "none" /\ n <= Len(S[kind])
        THEN [fixed EXCEPT !.entity = S[kind][n].entity, !.service = S[kind][n].service,
                           !.gap = S[kind][n].gap]
        ELSE fixed

\* the loop's guard, with S.stop for end_time
Before(W, S) == W.event_queue # <<>> /\ MinTime(W.event_queue) < S.stop

RECURSIVE HandleNext(_, _, _)
\* at most n iterations of run()'s loop: heappop and event.handle
HandleNext(W, S, n) ==
    IF n = 0 \/ ~Before(W, S) THEN W
    ELSE LET i == MinOf(Poppable(W.event_queue))
             ev == W.event_queue[i]
             popped == [W EXCEPT !.event_queue = RemoveAt(@, i), !.clock = ev.time]
         IN  CHOOSE end \in {HandleNext(after, S, n - 1) :
                                 after \in {HandleWith(popped, ev, ScriptDraws(S, W, ev))}} : TRUE

RECURSIVE RunScript(_, _)
\* run()'s loop up to S.stop, evaluated twelve iterations at a time
RunScript(W, S) ==
    IF ~Before(W, S) THEN W
    ELSE CHOOSE end \in {RunScript(after, S) : after \in {HandleNext(W, S, 12)}} : TRUE

\* Families come 47 seconds apart and every clerk takes 40 seconds, so that by
\* 09:16 the Pipes River carries 57 tubes; SingleVisitors come at 09:00, 09:19:45
\* and 09:20:14.5 and leave the clerks 29.5 seconds apart
Morning ==
    [Family |-> LET \* Families of six, five and three, leaving at 16:05
                    six == NewFamily(<<5, 6, 7, 9>>, 16 * 60 + 5, FALSE)
                    five == NewFamily(<<5, 6, 8>>, 16 * 60 + 5, FALSE)
                    three == NewFamily(<<7>>, 16 * 60 + 5, FALSE)
                    Next47(e) == Arrival(e, Seconds(40), Seconds(47))
                IN  Repeat(Next47(six), 4) \o <<Next47(five), Next47(five)>>
                    \o Repeat(Next47(six), 14)
                    \o <<Next47(five), Next47(five), Next47(three)>>
                    \o Repeat(Next47(six), 2)
                    \o <<Arrival(six, Seconds(40), Minutes(20) + HalfSecond)>>,
     TeenGroup |-> <<>>,
     SingleVisitor |-> <<Arrival(NewSingleVisitor(30, FALSE), Seconds(40) + HalfSecond,
                                 Minutes(19) + Seconds(45)),
                         Arrival(NewSingleVisitor(30, FALSE), Seconds(47) + HalfSecond,
                                 Seconds(29) + HalfSecond),
                         Arrival(NewSingleVisitor(30, FALSE), Seconds(47) + HalfSecond,
                                 Minutes(20))>>,
     stop |-> T(9, 15) + Seconds(40),
     until |-> T(9, 50),
     draws_used |-> MaxBranchingDraws]

\* TeenGroups come at 10:00, 11:10:07 and 11:16:13; each rides the Single Slide,
\* the Small Pipes and the Wave Pool and reaches the Snorkel Tour 64 minutes after
\* it came: at 11:04, 12:14:07 and 12:20:13; the next one comes at 12:16:13
Noon ==
    [Family |-> <<>>,
     TeenGroup |-> <<Arrival(NewTeenGroup(3, FALSE), Minutes(2), Minutes(70) + Seconds(7)),
                     Arrival(NewTeenGroup(3, FALSE), Minutes(2), Minutes(6) + Seconds(6)),
                     Arrival(NewTeenGroup(3, FALSE), Minutes(2), Minutes(60))>>,
     SingleVisitor |-> <<>>,
     stop |-> T(12, 10),
     until |-> end_time,
     draws_used |-> MaxBranchingDraws - 1]


InitBusy ==
    \E S \in {Morning, Noon} :
        \E W \in {RunScript(AtLoopStart, S)} :
            /\ pc = "running"
            /\ clock = W.clock
            /\ event_queue = W.event_queue
            /\ ents = W.ents
            /\ clerks_busy = W.clerks_busy
            /\ queue_reception = W.queue_reception
            /\ queue_regular = W.queue_regular
            /\ queue_express = W.queue_express
            /\ users_in_service = W.users_in_service
            /\ occupied_tubes = W.occupied_tubes
            /\ last_entry_times = W.last_entry_times
            /\ instructor_states = W.instructor_states
            /\ rest_queue = W.rest_queue
            /\ stations_busy = W.stations_busy
            /\ total_people_arrived = W.total_people_arrived
            /\ total_entities_arrived = W.total_entities_arrived
            /\ total_people_entered = W.total_people_entered
            /\ total_entities_entered = W.total_entities_entered
            /\ total_people_completed = W.total_people_completed
            /\ total_entities_completed = W.total_entities_completed
            /\ total_revenue = W.total_revenue
            /\ ratings = W.ratings
            /\ visitors_completed = W.visitors_completed
            /\ daily_entries = W.daily_entries
            /\ lane_entries = W.lane_entries
            /\ draws_used = S.draws_used
            /\ script = S
            /\ last_event = NoEvent
            /\ queue_server = QueueServer

NextBusy ==
    \/ FamilyArrivalEvent
    \/ TeensGroupArrivalEvent
    \/ SingleGroupArrivalEvent
    \/ EndReceptionEvent
    \/ ArriveAtFacilityEvent
    \/ EndFacilityEvent
    \/ AbandonmentEvent
    \/ ArriveAtRestaurantEvent
    \/ EndRestaurantServiceEvent
    \/ EndMealEvent
    \/ InstructorBreakEndEvent
    \/ InstructorLunchEndEvent
    \/ EndOfDayEvent
    \/ Finish

SpecBusy == InitBusy /\ [][NextBusy]_vars

(***************************************************************************)
(* Small days, set up the way a test of the handlers sets them up; the     *)
(* later ones (a rush at the reception, tours at the Snorkel Tour, a       *)
(* Family's outing, a run on the Single Slide) are described where they    *)
(* are defined.                                                            *)
(* An afternoon at the Big Pipes Slide: four TeenGroups that have used     *)
(* their four high-adrenaline rides are on their way to the Big Pipes      *)
(* Slide, one minute apart; their sizes are the values get_teen_group_size *)
(* returns below 6, and the loop runs on them until 15:12.  A lone Family: *)
(* the only arrival event of the day is the first FamilyArrivalEvent,      *)
(* which brings two parents and a child of 7, with or without an express   *)
(* pass, and the loop runs to its end.                                     *)
(***************************************************************************)
InitBench ==
    LET group(size) == [NewTeenGroup(size, FALSE) EXCEPT
                           !.visited_facilities = {SingleSlide, SmallPipes, WavePool, Snorkel}]
        EndOfDay == Event("EndOfDay", DayStart(StartTime) + T(19, 0), 0, 0, 0)
        Afternoon(sizes) ==
            LET people == sizes[1] + sizes[2] + sizes[3] + sizes[4]
            IN  [world |-> [AtLoopStart EXCEPT
                               !.clock = T(15, 0),
                               !.ents = [k \in 1..4 |-> group(sizes[k])],
                               !.event_queue =
                                   [k \in 1..4 |->
                                       Event("ArriveAtFacility", T(15, k), k, BigPipes, 0)]
                                   \o <<EndOfDay>>,
                               !.total_people_arrived = people, !.total_entities_arrived = 4,
                               !.total_people_entered = people, !.total_entities_entered = 4,
                               !.total_revenue = people * 150],
                 script |-> [NoScript EXCEPT !.until = T(15, 12),
                                             !.draws_used = MaxBranchingDraws - 1]]
        LoneFamily(express) ==
            [world |-> [AtLoopStart EXCEPT
                           !.event_queue = <<Event("FamilyArrival", StartTime, 0, 0, 0),
                                             EndOfDay>>],
             script |-> [NoScript EXCEPT
                            !.draws_used = MaxBranchingDraws,
                            !.Family = <<Arrival(NewFamily(<<7>>, 16 * 60 + 5, express),
                                                 Minutes(2), LongGap)>>]]
        \* a lone Family whose kids have the given ages; one draw of the day may
        \* leave its usual value, so the Family may split after a ride
        Outing(ages) ==
            [world |-> [AtLoopStart EXCEPT
                           !.event_queue = <<Event("FamilyArrival", StartTime, 0, 0, 0),
                                             EndOfDay>>],
             script |-> [NoScript EXCEPT
                            !.until = T(11, 0),
                            !.draws_used = MaxBranchingDraws - 1,
                            !.Family = <<Arrival(NewFamily(ages, 16 * 60 + 5, FALSE),
                                                 Minutes(2), LongGap)>>]]
        \* five TeenGroups of 3 reach the Snorkel Tour: three while no tour may
        \* start, one at 14:05 and one at 14:50
        Tours ==
            [world |-> [AtLoopStart EXCEPT
                           !.clock = T(13, 45),
                           !.ents = [k \in 1..5 |->
                                        [NewTeenGroup(3, FALSE) EXCEPT
                                            !.visited_facilities =
                                                {SingleSlide, SmallPipes, WavePool}]],
                           !.event_queue =
                               [k \in 1..5 |->
                                   Event("ArriveAtFacility",
                                         <<T(13, 50), T(13, 55), T(14, 1), T(14, 5), T(14, 50)>>[k],
                                         k, Snorkel, 0)]
                               \o <<EndOfDay>>,
                           !.total_people_arrived = 15, !.total_entities_arrived = 5,
                           !.total_people_entered = 15, !.total_entities_entered = 5,
                           !.total_revenue = 15 * 150],
             script |-> [NoScript EXCEPT !.until = T(15, 10),
                                         !.draws_used = MaxBranchingDraws]]
        \* seven TeenGroups of 3 reach the Single Slide 20 seconds apart
        Slides ==
            [world |-> [AtLoopStart EXCEPT
                           !.clock = T(15, 20),
                           !.ents = [k \in 1..7 |->
                                        [NewTeenGroup(3, FALSE) EXCEPT
                                            !.visited_facilities = {BigPipes, Snorkel}]],
                           !.event_queue =
                               [k \in 1..7 |->
                                   Event("ArriveAtFacility", T(15, 20) + Seconds(20 * k),
                                         k, SingleSlide, 0)]
                               \o <<EndOfDay>>,
                           !.total_people_arrived = 21, !.total_entities_arrived = 7,
                           !.total_people_entered = 21, !.total_entities_entered = 7,
                           !.total_revenue = 21 * 150],
             script |-> [NoScript EXCEPT !.until = T(15, 23),
                                         !.draws_used = MaxBranchingDraws]]
        \* five arrivals in the first 40 seconds of the day, for three clerks
        Rush ==
            [world |-> AtLoopStart,
             script |-> [NoScript EXCEPT
                            !.until = T(9, 6),
                            !.draws_used = MaxBranchingDraws,
                            !.Family = <<Arrival(NewFamily(<<7, 9>>, 16 * 60 + 5, FALSE),
                                                 Minutes(2), Seconds(20)),
                                         Arrival(NewFamily(<<7, 9>>, 16 * 60 + 5, FALSE),
                                                 Minutes(1), Seconds(20)),
                                         Arrival(NewFamily(<<7, 9>>, 16 * 60 + 5, FALSE),
                                                 Minutes(2), LongGap)>>,
                            !.SingleVisitor = <<Arrival(NewSingleVisitor(30, FALSE),
                                                        Minutes(3), Seconds(30)),
                                                Arrival(NewSingleVisitor(30, FALSE),
                                                        Minutes(1), LongGap)>>]]
    IN  \E B \in {Afternoon(sizes) : sizes \in [1..4 -> {2, 3, 4, 5}]}
                      \cup {LoneFamily(express) : express \in BOOLEAN} \cup {Rush, Tours, Slides}
                      \cup {Outing(ages) : ages \in {<<9>>, <<5, 14>>, <<14, 15>>,
                                                     <<5, 9, 14>>, <<3, 6, 10, 11>>}} :
            /\ pc = "running"
            /\ clock = B.world.clock
            /\ event_queue = B.world.event_queue
            /\ ents = B.world.ents
            /\ clerks_busy = B.world.clerks_busy
            /\ queue_reception = B.world.queue_reception
            /\ queue_regular = B.world.queue_regular
            /\ queue_express = B.world.queue_express
            /\ users_in_service = B.world.users_in_service
            /\ occupied_tubes = B.world.occupied_tubes
            /\ last_entry_times = B.world.last_entry_times
            /\ instructor_states = B.world.instructor_states
            /\ rest_queue = B.world.rest_queue
            /\ stations_busy = B.world.stations_busy
            /\ total_people_arrived = B.world.total_people_arrived
            /\ total_entities_arrived = B.world.total_entities_arrived
            /\ total_people_entered = B.world.total_people_entered
            /\ total_entities_entered = B.world.total_entities_entered
            /\ total_people_completed = B.world.total_people_completed
            /\ total_entities_completed = B.world.total_entities_completed
            /\ total_revenue = B.world.total_revenue
            /\ ratings = B.world.ratings
            /\ visitors_completed = B.world.visitors_completed
            /\ daily_entries = B.world.daily_entries
            /\ lane_entries = B.world.lane_entries
            /\ draws_used = B.script.draws_used
            /\ script = B.script
            /\ last_event = NoEvent
            /\ queue_server = QueueServer

NextBench ==
    \/ FamilyArrivalEvent
    \/ SingleGroupArrivalEvent
    \/ EndReceptionEvent
    \/ ArriveAtFacilityEvent
    \/ EndFacilityEvent
    \/ AbandonmentEvent
    \/ InstructorBreakEndEvent
    \/ EndOfDayEvent
    \/ Finish

SpecBench == InitBench /\ [][NextBench]_vars

(***************************************************************************)
(* One QueueServer through its days.  The fourth specification follows a   *)
(* single queue: visitors join it, are popped from its head or leave it,   *)
(* and at 19:00 EndOfDayEvent closes its day.  The clock of a day's calls  *)
(* grows strictly, so a day has at most as many calls as it has hours here.*)
(***************************************************************************)
NextQueue ==
    \* QueueServer.add
    \/ \E h \in {2, 4, 6}, v \in 1..2 :
           LET Q == queue_server
               t == StartTime + Len(Q.daily_avg_queue_lengths) * TicksPerDay + T(h, 0)
           IN  /\ Len(Q.daily_avg_queue_lengths) < MaxDays
               /\ t > clock
               /\ SetWorld([World EXCEPT !.clock = t])
               /\ queue_server' = record_queue_length(
                      [Q EXCEPT !.server_queue = Append(@, <<v, t>>)], t)
               /\ last_event' = [NoEvent EXCEPT !.type = "add"]
               /\ UNCHANGED <<pc, draws_used, script>>
    \* QueueServer.pop with a removing_time
    \/ \E h \in {2, 4, 6} :
           LET Q == queue_server
               t == StartTime + Len(Q.daily_avg_queue_lengths) * TicksPerDay + T(h, 0)
               extracted == Head(Q.server_queue)
               popped == record_queue_length([Q EXCEPT !.server_queue = Tail(@)], t)
           IN  /\ Len(Q.daily_avg_queue_lengths) < MaxDays
               /\ t > clock
               /\ Q.server_queue # <<>>
               /\ SetWorld([World EXCEPT !.clock = t])
               /\ queue_server' = [popped EXCEPT !.waiting_times = Append(@, t - extracted[2])]
               /\ last_event' = [NoEvent EXCEPT !.type = "pop"]
               /\ UNCHANGED <<pc, draws_used, script>>
    \* QueueServer.remove: the length is recorded before the visitor is looked for
    \/ \E h \in {2, 4, 6}, v \in 1..2 :
           LET Q == queue_server
               t == StartTime + Len(Q.daily_avg_queue_lengths) * TicksPerDay + T(h, 0)
               recorded == record_queue_length(Q, t)
               at == {i \in 1..Len(Q.server_queue) : Q.server_queue[i][1] = v}
           IN  /\ Len(Q.daily_avg_queue_lengths) < MaxDays
               /\ t > clock
               /\ SetWorld([World EXCEPT !.clock = t])
               /\ queue_server' = IF at = {} THEN recorded
                                  ELSE [recorded EXCEPT !.server_queue = RemoveAt(@, MinOf(at))]
               /\ last_event' = [NoEvent EXCEPT !.type = "remove"]
               /\ UNCHANGED <<pc, draws_used, script>>
    \* Big_Pipes_Slide.get_next_batch with this queue as its queue_regular and
    \* nobody in queue_express; visitor 1 is a group of 5 and visitor 2 a group of 3
    \/ \E h \in {2, 4, 6} :
           LET Q == queue_server
               t == StartTime + Len(Q.daily_avg_queue_lengths) * TicksPerDay + T(h, 0)
               size(entry) == <<5, 3>>[entry[1]]
               RECURSIVE total(_)
               total(s) == IF s = <<>> THEN 0 ELSE size(Head(s)) + total(Tail(s))
               RECURSIVE fill(_, _, _)
               \* the loop over queue_regular: <<the queue, temp_regular, batch_size>>
               fill(S, temp, n) ==
                   IF /\ S.server_queue # <<>>
                      /\ n < capacity[BigPipes]
                      /\ n + size(Head(S.server_queue)) <= capacity[BigPipes]
                   THEN LET extracted == Head(S.server_queue)
                            popped == record_queue_length([S EXCEPT !.server_queue = Tail(@)], t)
                        IN  fill([popped EXCEPT !.waiting_times = Append(@, t - extracted[2])],
                                 Append(temp, extracted), n + size(extracted))
                   ELSE <<S, temp, n>>
               RECURSIVE rollback(_, _)
               \* for v, t in reversed(temp_regular): insert(0, v, t)
               rollback(S, temp) ==
                   IF temp = <<>> THEN S
                   ELSE LET e == temp[Len(temp)]
                        IN  rollback(record_queue_length(
                                         [S EXCEPT !.server_queue = <<e>> \o @], e[2]),
                                     SubSeq(temp, 1, Len(temp) - 1))
               r == fill(Q, <<>>, 0)
           IN  /\ Len(Q.daily_avg_queue_lengths) < MaxDays
               /\ t > clock
               /\ SetWorld([World EXCEPT !.clock = t])
               /\ queue_server' = IF total(Q.server_queue) < capacity[BigPipes] THEN Q
                                  ELSE IF r[3] = capacity[BigPipes] THEN r[1]
                                  ELSE rollback(r[1], r[2])
               /\ last_event' = [NoEvent EXCEPT !.type = "get_next_batch"]
               /\ UNCHANGED <<pc, draws_used, script>>
    \* EndOfDayEvent.handle, for one queue
    \/ LET Q == queue_server
           day_start == StartTime + Len(Q.daily_avg_queue_lengths) * TicksPerDay
           time == DayStart(day_start) + T(19, 0)
           seeded == IF Q.queue_change_times = <<>>
                     THEN [Q EXCEPT !.queue_change_times = <<day_start>>,
                                    !.queue_lengths = <<Len(Q.server_queue)>>]
                     ELSE Q
       IN  /\ Len(Q.daily_avg_queue_lengths) < MaxDays
           /\ SetWorld([World EXCEPT !.clock = time])
           /\ queue_server' = calc_daily_statistics(record_queue_length(seeded, time))
           /\ last_event' = [NoEvent EXCEPT !.type = "EndOfDay"]
           /\ UNCHANGED <<pc, draws_used, script>>

SpecQueue == Init /\ [][NextQueue]_vars

(***************************************************************************)
(* Claims                                                                  *)
(***************************************************************************)
HasDuplicates(s) == \E i, j \in 1..Len(s) : i < j /\ s[i] = s[j]

\* C1: in every reachable state of a run, total_people_arrived >=
\* total_people_entered >= total_people_completed.
C1_ArrivedEnteredCompleted ==
    /\ total_people_arrived >= total_people_entered
    /\ total_people_entered >= total_people_completed

\* C2: when run() has returned, after force_close_park, every entity that passed
\* reception has been completed: total_people_entered = total_people_completed.
C2_EnteredEqualsCompletedAtReturn ==
    pc = "done" => total_people_entered = total_people_completed

\* C3: an entity is completed at most once: no entity is booked into
\* visitors_completed (and with it ratings and total_people_completed) twice.
C3_CompletedAtMostOnce == ~HasDuplicates(visitors_completed)

\* C4: in every reachable state total_entities_completed equals the number of
\* entries of the ratings list.
C4_EntitiesCompletedIsLenRatings == total_entities_completed = Len(ratings)

\* C4's case: the run has returned, with completions booked before the horizon
\* (an entity booked twice on the exit path of a ride) and by force_close_park
C4_Witness ==
    /\ pc = "done"
    /\ Len(ratings) >= 4
    /\ HasDuplicates(visitors_completed)

Families == {v \in 1..Len(ents) : ents[v].kind = "Family"}
Completed(v) == Contains(visitors_completed, v)

\* C5: for every Family active_subgroups_count is never negative, is 1 while the
\* Family is neither split nor completed, and is 0 exactly when the Family has
\* been completed.
C5_ActiveSubgroupsCount ==
    \A v \in Families :
        /\ ents[v].active_subgroups_count >= 0
        /\ (~ents[v].is_split /\ ~Completed(v)) => ents[v].active_subgroups_count = 1
        /\ Completed(v) <=> ents[v].active_subgroups_count = 0

\* C6: a SubGroup is never itself appended to the completed list (and with it
\* to ratings and the completion counters); its Family is booked instead.
C6_SubGroupNeverBooked ==
    \A k \in 1..Len(visitors_completed) : ents[visitors_completed[k]].kind # "SubGroup"

\* what a run reports: the counters, the revenue, the rating sequence and the
\* number of daily averages every queue holds
Outcome(W) ==
    <<W.total_people_arrived, W.total_entities_arrived, W.total_people_entered,
      W.total_entities_entered, W.total_people_completed, W.total_entities_completed,
      W.total_revenue, W.ratings, W.daily_entries>>

\* run() from the last instant on, when the heap hands out its i-th event first:
\* the event is handled, the clock has reached end_time, force_close_park runs
ReturnAfter(i) == force_close_park(HandleEvent(Popped(i), event_queue[i]))

\* C7: with the random draws fixed, what the run reports does not depend on how
\* the heap orders events with equal timestamps: whichever of the events tied at
\* end_time is popped first, run() returns the same outcome.
C7_OutcomeIndependentOfTieOrder ==
    (/\ pc = "running"
     /\ event_queue # <<>>
     /\ clock < end_time
     /\ MinTime(event_queue) = end_time)
    => \A i, j \in Poppable(event_queue) : Outcome(ReturnAfter(i)) = Outcome(ReturnAfter(j))

\* C8: events with identical timestamps are dispatched in the order of their
\* insertion: the event popped is the earliest inserted of those with the
\* smallest time.
C8_EqualTimesFIFO == last_event.fifo

\* C9: run() dispatches every event whose time is <= end_time and none whose
\* time is later; the 19:00 EndOfDayEvent is dispatched, so when run() has
\* returned every queue holds exactly one daily-average entry.
C9_HorizonAndEndOfDay ==
    /\ last_event.time <= end_time
    /\ pc = "done" =>
          /\ \A k \in 1..Len(event_queue) : event_queue[k].time > end_time
          /\ daily_entries = 1

\* C10: an Abandonment dispatched when its visitor is in neither queue of its
\* facility leaves the entities (ratings, express flags), total_revenue, all
\* queues, the completion counters and lists unchanged, and the event heap
\* unchanged but for the popped event.
C10_AbandonmentNoOp ==
    [][(/\ pc = "running" /\ pc' = "running"
        /\ last_event'.type = "Abandonment"
        /\ ~last_event'.in_queue
        /\ clock' = last_event'.time)
       => /\ ents' = ents
          /\ total_revenue' = total_revenue
          /\ queue_reception' = queue_reception
          /\ queue_regular' = queue_regular
          /\ queue_express' = queue_express
          /\ rest_queue' = rest_queue
          /\ users_in_service' = users_in_service
          /\ total_people_completed' = total_people_completed
          /\ total_entities_completed' = total_entities_completed
          /\ ratings' = ratings
          /\ visitors_completed' = visitors_completed
          /\ \E j \in 1..Len(event_queue) :
                /\ event_queue[j].type = "Abandonment"
                /\ event_queue[j].visitor = last_event'.visitor
                /\ event_queue[j].facility = last_event'.facility
                /\ event_queue[j].time = last_event'.time
                /\ event_queue' = RemoveAt(event_queue, j)]_vars

\* C10's case: the Abandonment just dispatched found its visitor out of the
\* queues of a facility the visitor has already ridden
C10_Witness ==
    /\ last_event.type = "Abandonment"
    /\ ~last_event.in_queue
    /\ last_event.facility \in ents[last_event.visitor].visited_facilities

\* a step of run()'s loop that popped and handled an event of this type
Handled(type) ==
    /\ pc = "running"
    /\ pc' = "running"
    /\ event_queue' # event_queue
    /\ last_event'.type = type

\* C11: an entity that holds an express pass is never removed from a facility
\* queue (and so never penalised) by an AbandonmentEvent, whenever the event was
\* scheduled.
C11_ExpressNeverAbandoned ==
    [][(Handled("Abandonment") /\ last_event'.in_queue)
          => ~ents[last_event'.visitor].has_express_pass]_vars

\* C12: an entity without express pass that waits in a facility's regular queue
\* has its AbandonmentEvent for that facility pending, due no later than its
\* abandonment threshold (15, 20 or 30 minutes) from now, so that it is out of
\* the queue once the events of that time are handled; and an AbandonmentEvent
\* that removes an entity is the latest one scheduled for it at that facility:
\* no entity is removed before the threshold of its present wait has passed.
C12_AbandonAtThreshold ==
    [][/\ pc = "running" =>
              \A f \in Facilities : \A p \in 1..Len(queue_regular[f]) :
                  LET v == queue_regular[f][p]
                  IN  ~ents[v].has_express_pass =>
                          \E k \in 1..Len(event_queue) :
                              /\ event_queue[k].type = "Abandonment"
                              /\ event_queue[k].visitor = v
                              /\ event_queue[k].facility = f
                              /\ event_queue[k].time <= clock + get_abandonment_threshold(World, v)
       /\ (Handled("Abandonment") /\ last_event'.in_queue) =>
              \A k \in 1..Len(event_queue) :
                  (/\ event_queue[k].type = "Abandonment"
                   /\ event_queue[k].visitor = last_event'.visitor
                   /\ event_queue[k].facility = last_event'.facility)
                  => event_queue[k].time <= last_event'.time]_vars

\* C13: in every reachable state the people in service at the Wave Pool and at
\* the Kids Pool (the sum of group_size over users_in_service) are at most the
\* pool's capacity, 80 and 30.
C13_PoolWithinCapacity ==
    \A f \in {WavePool, KidsPool} : SumSizes(World, users_in_service[f]) <= capacity[f]

\* C13's case: a group has just arrived at the Kids Pool and waits because the
\* pool, 26 people in it, has no room for its 6
C13_Witness ==
    /\ last_event.type = "ArriveAtFacility"
    /\ last_event.facility = KidsPool
    /\ Contains(queue_regular[KidsPool], last_event.visitor)
    /\ SumSizes(World, users_in_service[KidsPool]) >= 26
    /\ ~PoolCanEnter(World, KidsPool, GroupSize(World, last_event.visitor))

\* C14: in every reachable state 0 <= occupied_tubes <= 60 at the Pipes River,
\* whatever the order of admissions of even groups, admissions of pairs of odd
\* groups, pair attempts that are rolled back, and releases.
C14_TubesWithinRange == 0 <= occupied_tubes /\ occupied_tubes <= total_tubes

\* C14's case: with 57 tubes taken, after admissions of even groups and of a pair,
\* an odd group has just arrived, was paired with the odd group at the head of
\* the queue, and the pair was put back for lack of tubes
C14_Witness ==
    /\ last_event.type = "ArriveAtFacility"
    /\ last_event.facility = PipesRiver
    /\ occupied_tubes >= 57
    /\ \E v \in Range(users_in_service[PipesRiver]) : ents[v].is_shared_tube
    /\ Len(queue_regular[PipesRiver]) = 2
    /\ queue_regular[PipesRiver][2] = last_event.visitor
    /\ GroupSize(World, queue_regular[PipesRiver][1]) % 2 = 1
    /\ GroupSize(World, queue_regular[PipesRiver][2]) % 2 = 1
    /\ ~HasTubes(occupied_tubes, CeilHalf(GroupSize(World, queue_regular[PipesRiver][1])
                                          + GroupSize(World, queue_regular[PipesRiver][2])))

\* C15: at the Big Pipes and the Small Pipes a batch is admitted only when nobody
\* is in service, the groups of every batch admitted sum to exactly the tube
\* size (8 and 3), and the people in service never exceed the tube size.
C15_ExactBatches ==
    [][\A f \in {BigPipes, SmallPipes} :
           /\ SumSizes(World, users_in_service[f]) <= capacity[f]
           /\ Len(users_in_service'[f]) > Len(users_in_service[f]) =>
                  /\ users_in_service[f] = <<>>
                  /\ SumSizes([ents |-> ents'], users_in_service'[f]) = capacity[f]]_vars

\* C15's case: a Family of three has just arrived at the Big Pipes and left in one
\* tube with the Family of five that waited there, while other groups wait on
\* at the Pipes River
C15_Witness ==
    /\ last_event.type = "ArriveAtFacility"
    /\ last_event.facility = BigPipes
    /\ Len(users_in_service[BigPipes]) = 2
    /\ users_in_service[BigPipes][2] = last_event.visitor
    /\ SumSizes(World, users_in_service[BigPipes]) = capacity[BigPipes]
    /\ queue_regular[BigPipes] = <<>>

\* C16: on each lane of the Single Slide two successive admissions are at least
\* 0.5 minutes of simulation time apart.
C16_LaneSafetyInterval ==
    \A lane \in 1..num_slides : \A k \in 1..(Len(lane_entries[lane]) - 1) :
        lane_entries[lane][k + 1] - lane_entries[lane][k] >= safety_interval

\* ---- C17 ----
\* a step that starts a Snorkel tour: an instructor goes on tour, or more
\* members are in service at the Snorkel Tour than before
TourStarted ==
    \/ \E i \in 1..num_instructors :
           instructor_states'[i].on_tour /\ ~instructor_states[i].on_tour
    \/ Len(users_in_service'[Snorkel]) > Len(users_in_service[Snorkel])

\* C17: no step of the simulation starts a Snorkel tour at a time of day t
\* with 12:20 <= t < 14:00, whichever event called try_start_facility
C17_NoTourInRestrictedHours ==
    [][TourStarted => ~(T(12, 20) <= clock' % TicksPerDay /\ clock' % TicksPerDay < T(14, 0))]_vars

\* a group arrived at the Snorkel Tour inside the window while an instructor was
\* free and rested, and was left waiting in the queue
C17_Witness ==
    /\ last_event.type = "ArriveAtFacility"
    /\ last_event.facility = Snorkel
    /\ T(12, 20) <= last_event.time /\ last_event.time < T(14, 0)
    /\ clock = last_event.time
    /\ \E k \in 1..Len(queue_regular[Snorkel]) : queue_regular[Snorkel][k] = last_event.visitor
    /\ \E i \in 1..num_instructors :
           instructor_states[i].available /\ instructor_states[i].finish_time <= clock
    /\ users_in_service[Snorkel] = <<>>

\* ---- C18 ----
\* C18: at no time of day t with 13:00 <= t < 14:00 is an instructor on tour
\* or a tour member in service at the Snorkel Tour
C18_NoTourOverLunch ==
    (T(13, 0) <= clock % TicksPerDay /\ clock % TicksPerDay < T(14, 0))
        => /\ \A i \in 1..num_instructors : ~instructor_states[i].on_tour
           /\ users_in_service[Snorkel] = <<>>

\* ---- C19 ----
\* C19: the Router (choose_facility) never returns a facility the entity has
\* visited; no step takes a facility out of an entity's visited_facilities; and
\* no step admits an entity to service at a facility where it is in service
\* already or which it has visited, so that no entity rides one facility twice
C19_NeverSameFacilityTwice ==
    [][LET Occ(s, v) == Cardinality({k \in 1..Len(s) : s[k] = v})
       IN  /\ \A v \in 1..Len(ents) : \A fv \in BOOLEAN :
                  choose_facility(World, v, fv) \notin ents[v].visited_facilities
           /\ \A v \in 1..Len(ents) :
                  /\ v <= Len(ents')
                  /\ ents[v].visited_facilities \subseteq ents'[v].visited_facilities
           /\ \A v \in 1..Len(ents) : \A f \in Facilities :
                  Occ(users_in_service'[f], v) > Occ(users_in_service[f], v)
                      => /\ f \notin ents[v].visited_facilities
                         /\ Occ(users_in_service[f], v) = 0]_vars

\* ---- C20 ----
\* C20: for every entity of the park and for both values of is_first_visit,
\* the facility choose_facility returns, if any, has age_limit <= the entity's
\* min_age; and the same holds when the entity of the last event is recast as
\* any variant (Family, SubGroup, TeenGroup, SingleVisitor) at the ages its
\* constructor can give it, with the queues and the visit history as they are
C20_RouterRespectsAgeLimit ==
    LET Respects(W, v) ==
            \A fv \in BOOLEAN :
                choose_facility(W, v, fv) # 0
                    => age_limit[choose_facility(W, v, fv)] <= W.ents[v].min_age
        variants == ({"Family", "SubGroup"} \X {2, 5, 7, 13, 18})
                    \cup {<<"TeenGroup", 14>>}
                    \cup ({"SingleVisitor"} \X {18, 70})
    IN  /\ \A v \in 1..Len(ents) : Respects(World, v)
        /\ last_event.visitor # 0
               => \A variant \in variants :
                      Respects([World EXCEPT !.ents[last_event.visitor].kind = variant[1],
                                             !.ents[last_event.visitor].min_age = variant[2]],
                               last_event.visitor)

\* the Router has just sent an entity to a facility although an unvisited
\* facility too old for it had a shorter queue
C20_Witness ==
    /\ last_event.type \in {"EndReception", "EndFacility"}
    /\ last_event.visitor # 0
    /\ \E i \in 1..Len(event_queue) :
           /\ event_queue[i].type = "ArriveAtFacility"
           /\ event_queue[i].visitor = last_event.visitor
           /\ event_queue[i].time = clock
           /\ \E g \in Facilities \ ents[last_event.visitor].visited_facilities :
                  /\ age_limit[g] > ents[last_event.visitor].min_age
                  /\ get_total_waiting(World, g)
                         < get_total_waiting(World, event_queue[i].facility)

\* ---- C21 ----
\* C21: for a TeenGroup the Router returns only facilities with
\* adrenalin_level >= 3 and age_limit <= 14; when none of them is left
\* unvisited it returns None (0), never a facility of lower adrenaline
C21_TeensHighAdrenalineOnly ==
    \A v \in 1..Len(ents) : \A fv \in BOOLEAN :
        (ents[v].kind = "TeenGroup" /\ choose_facility(World, v, fv) # 0)
            => /\ adrenalin_level[choose_facility(World, v, fv)] >= 3
               /\ age_limit[choose_facility(World, v, fv)] <= 14

\* ---- C22 ----
\* C22: the Router never returns the Kids Pool for an entity whose min_age is
\* greater than 4, the pool's age ceiling; in particular never for a
\* SingleVisitor or a TeenGroup, on a first or a later visit
C22_KidsPoolAgeCeiling ==
    \A v \in 1..Len(ents) : \A fv \in BOOLEAN :
        choose_facility(World, v, fv) = KidsPool => ents[v].min_age <= 4

\* ---- C23 ----
\* C23: the step that ends a Family's reception schedules its arrival, at the
\* same time, at a facility with age_limit 0 whose regular and express queues
\* together are the shortest among the facilities with age_limit 0, the
\* earlier facility of the list winning a tie
C23_FamilyFirstFacility ==
    [][(Handled("EndReception") /\ ents[last_event'.visitor].kind = "Family")
          => LET Waiting(f) == Len(queue_regular[f]) + Len(queue_express[f])
                 new == {i \in 1..Len(event_queue') :
                            /\ event_queue'[i].type = "ArriveAtFacility"
                            /\ event_queue'[i].visitor = last_event'.visitor}
             IN  /\ Cardinality(new) = 1
                 /\ \A i \in new :
                        /\ event_queue'[i].time = clock'
                        /\ age_limit[event_queue'[i].facility] = 0
                        /\ \A g \in Facilities :
                               age_limit[g] = 0
                                   => \/ Waiting(event_queue'[i].facility) < Waiting(g)
                                      \/ /\ Waiting(event_queue'[i].facility) = Waiting(g)
                                         /\ event_queue'[i].facility <= g]_vars

\* a Family has just left reception for the Big Pipes Slide because the Pipes
\* River, earlier in the list, had the longer queue
C23_Witness ==
    /\ last_event.type = "EndReception"
    /\ ents[last_event.visitor].kind = "Family"
    /\ \E i \in 1..Len(event_queue) :
           /\ event_queue[i].type = "ArriveAtFacility"
           /\ event_queue[i].visitor = last_event.visitor
           /\ event_queue[i].time = clock
           /\ event_queue[i].facility = BigPipes
    /\ Len(queue_regular[PipesRiver]) + Len(queue_express[PipesRiver])
           > Len(queue_regular[BigPipes]) + Len(queue_express[BigPipes])
    /\ Len(queue_regular[BigPipes]) + Len(queue_express[BigPipes]) > 0

\* ---- C24 ----
\* C24: with the Big Pipes Slide idle and no express queue, the arrival of a
\* group of 4 behind groups of 5 and 2 admits nobody, and the arrival of a
\* group of 3 behind groups of 5, 2 and 4 admits the groups of 5 and 3 as one
\* batch of 8, leaving the groups of 2 and 4 in the queue
C24_BigPipesSkipsToFit ==
    [][LET q == queue_regular[BigPipes]
           sizes == [k \in 1..Len(q) |-> ents[q[k]].group_size]
           arriving == last_event'.visitor
       IN  (/\ Handled("ArriveAtFacility")
            /\ last_event'.facility = BigPipes
            /\ users_in_service[BigPipes] = <<>>
            /\ queue_express[BigPipes] = <<>>)
              => /\ (sizes = <<5, 2>> /\ ents[arriving].group_size = 4)
                        => /\ users_in_service'[BigPipes] = <<>>
                           /\ queue_regular'[BigPipes] = Append(q, arriving)
                 /\ (sizes = <<5, 2, 4>> /\ ents[arriving].group_size = 3)
                        => /\ users_in_service'[BigPipes] = <<q[1], arriving>>
                           /\ queue_regular'[BigPipes] = Tail(q)]_vars

\* ---- C25 ----
\* C25: on the Pipes River an odd-sized group is admitted only together with
\* another odd-sized group, the two are marked as each other's tube partner
\* and the groups admitted in one step take (sum of their sizes) / 2 tubes;
\* when a group that shares tubes finishes while its partner is still in
\* service occupied_tubes does not change, and when it finishes after its
\* partner the (s1 + s2) / 2 tubes of the pair are released
C25_SharedTubesReleasedOnce ==
    [][LET river == users_in_service[PipesRiver]
           admitted == {v \in 1..Len(ents) :
                           Contains(users_in_service'[PipesRiver], v) /\ ~Contains(river, v)}
           people == SumSizes(World, users_in_service'[PipesRiver]) - SumSizes(World, river)
           v == last_event'.visitor
           partner == ents[v].tube_partner
       IN  /\ (Handled("ArriveAtFacility") /\ last_event'.facility = PipesRiver)
                  => /\ occupied_tubes' - occupied_tubes = people \div 2
                     /\ people % 2 = 0
                     /\ \A a \in admitted :
                            ents[a].group_size % 2 = 1
                                => /\ ents'[a].is_shared_tube
                                   /\ ents'[a].tube_partner \in admitted \ {a}
                                   /\ ents'[ents'[a].tube_partner].tube_partner = a
                                   /\ ents'[ents'[a].tube_partner].group_size % 2 = 1
           /\ (/\ Handled("EndFacility")
               /\ last_event'.facility = PipesRiver
               /\ Contains(river, v)
               /\ ents[v].is_shared_tube)
                  => IF Contains(river, partner)
                     THEN occupied_tubes' = occupied_tubes
                     ELSE occupied_tubes' = occupied_tubes
                              - (ents[v].group_size + ents[partner].group_size) \div 2]_vars


C27_NoEventInThePast ==
    [][(pc = "running" /\ pc' = "running")
          => /\ clock' >= clock
             /\ \A i \in 1..Len(event_queue') : event_queue'[i].time >= clock']_vars

\* C28: closing the day of a queue that had no traffic that day (nobody joined,
\* left or was popped since the queue was made or its last day was closed, and
\* nobody stands in it) appends 0 as the day's average length and 0 as the
\* day's average wait, and leaves the integral, the change times, the length
\* samples and the wait list as QueueServer() makes them: so a second
\* traffic-free day closes with 0 and 0 again.
C28_IdleDayClosesWithZeros ==
    [][LET Q == queue_server
           R == queue_server'
           days == Len(R.daily_avg_queue_lengths)
       IN  (/\ days = Len(Q.daily_avg_queue_lengths) + 1
            /\ Q.queue_change_times = <<>>
            /\ Q.server_queue = <<>>)
           => /\ Len(R.daily_avg_waiting_times) = days
              /\ R.daily_avg_queue_lengths[days][1] = 0
              /\ R.daily_avg_waiting_times[days][1] = 0
              /\ R.total_queue_length_time = QueueServer.total_queue_length_time
              /\ R.queue_change_times = QueueServer.queue_change_times
              /\ R.queue_lengths = QueueServer.queue_lengths
              /\ R.waiting_times = QueueServer.waiting_times]_vars

\* a day without traffic was closed with 0 and 0 after a day on which
\* visitors had waited in the queue
C28_Witness ==
    LET Q == queue_server
    IN  /\ Len(Q.daily_avg_queue_lengths) = 2
        /\ last_event.type = "EndOfDay"
        /\ Q.daily_avg_queue_lengths[1][1] > 0
        /\ Q.daily_avg_waiting_times[1][1] > 0
        /\ Q.daily_avg_queue_lengths[2][1] = 0
        /\ Q.daily_avg_waiting_times[2] = <<0, 1>>
        /\ Q.server_queue = <<>>
        /\ Q.queue_change_times = <<>>

\* ---- C29 ----
\* C29: an abandonment of a visitor found in the queue that ends without an
\* express purchase treats the visitor as the end of a ride does: at or past
\* its departure time (the parent Family's for a SubGroup) no arrival at a
\* facility is scheduled for it, and when a Family or SubGroup leaves, the
\* Family's active_subgroups_count is set (0 for a Family, one less for a
\* SubGroup) and the Family is completed exactly when the count is 0.
C29_AbandonmentExitsLikeRideEnd ==
    [][(/\ Handled("Abandonment")
        /\ last_event'.in_queue
        /\ ents'[last_event'.visitor].has_express_pass
               = ents[last_event'.visitor].has_express_pass)
          => LET v == last_event'.visitor
                 e == ents[v]
                 original == IF e.kind = "SubGroup" THEN e.parent_family ELSE v
                 moved == Len(event_queue') = Len(event_queue)
             IN  /\ PastDeparture(World, v, clock') => ~moved
                 /\ (~moved /\ e.kind \in {"Family", "SubGroup"})
                        => /\ ents'[original].active_subgroups_count
                                  = IF e.kind = "SubGroup"
                                    THEN ents[original].active_subgroups_count - 1 ELSE 0
                           /\ visitors_completed'
                                  = IF ents'[original].active_subgroups_count = 0
                                    THEN Append(visitors_completed, original)
                                    ELSE visitors_completed]_vars

\* ---- C30 ----
\* C30: a TeenGroup gets its express pass after an abandonment at most once:
\* the step in which its flag is set is the handling of an AbandonmentEvent
\* that found it in the queue, adds exactly 50 * group_size to total_revenue
\* and schedules its arrival at the same facility at the same time, where it
\* joins the express queue; the flag is never cleared, and the AbandonmentEvent
\* of a group that holds a pass adds nothing to total_revenue but the price
\* of the photos when the group leaves the park.
C30_TeensBuyExpressOnce ==
    [][\A v \in 1..Len(ents) :
           ents[v].kind = "TeenGroup"
               => LET size == ents[v].group_size
                      mine == Handled("Abandonment") /\ last_event'.visitor = v
                      f == last_event'.facility
                  IN  /\ ents[v].has_express_pass => ents'[v].has_express_pass
                      /\ (~ents[v].has_express_pass /\ ents'[v].has_express_pass)
                             => /\ mine
                                /\ last_event'.in_queue
                                /\ total_revenue' = total_revenue + 50 * size
                                /\ Len(event_queue') = Len(event_queue)
                                /\ \E i \in 1..Len(event_queue') :
                                       event_queue'[i] = Event("ArriveAtFacility", clock', v, f, 0)
                                /\ clock' = last_event'.time
                      /\ (mine /\ ents[v].has_express_pass)
                             => total_revenue' = total_revenue
                                    + (IF last_event'.in_queue /\ Len(event_queue') < Len(event_queue)
                                       THEN PhotoPrice(ents'[v].rating) ELSE 0)
                      /\ (/\ Handled("ArriveAtFacility")
                          /\ last_event'.visitor = v
                          /\ ents[v].has_express_pass)
                             => /\ clock' = last_event'.time
                                /\ \/ Contains(queue_express'[f], v)
                                   \/ Contains(users_in_service'[f], v)
                                /\ Contains(queue_regular'[f], v) => Contains(queue_regular[f], v)]_vars

\* a TeenGroup has just abandoned a queue and bought its pass: its arrival at
\* the same facility is scheduled for this very time
C30_Witness ==
    /\ last_event.type = "Abandonment"
    /\ last_event.in_queue
    /\ ents[last_event.visitor].kind = "TeenGroup"
    /\ ents[last_event.visitor].has_express_pass
    /\ \E i \in 1..Len(event_queue) :
           event_queue[i] = Event("ArriveAtFacility", clock, last_event.visitor,
                                  last_event.facility, 0)

\* ---- C31 ----
\* C31: between events a non-empty reception queue means that every clerk is
\* busy, the busy clerks are as many as the pending EndReception events, one
\* event per busy clerk, and entities start their reception service in the
\* order in which their arrival events were handled: the queue holds them in
\* that order and whoever starts service came before everyone left waiting.
C31_ReceptionWorkConservingFifo ==
    /\ [](LET pending == {i \in 1..Len(event_queue) : event_queue[i].type = "EndReception"}
              busy == {c \in 1..num_clerks : clerks_busy[c]}
          IN  /\ queue_reception # <<>> => busy = 1..num_clerks
              /\ Cardinality(pending) = Cardinality(busy)
              /\ \A c \in busy : \E i \in pending : event_queue[i].idx = c
              /\ \A j, k \in 1..Len(queue_reception) :
                     j < k => queue_reception[j] < queue_reception[k])
    /\ [][\A i \in 1..Len(event_queue') :
              (event_queue'[i].type = "EndReception" /\ ~Contains(event_queue, event_queue'[i]))
                  => \A k \in 1..Len(queue_reception') :
                         event_queue'[i].visitor < queue_reception'[k]]_vars

\* an entity that waited in the reception queue has just been called by the
\* clerk who finished, while another entity still waits behind it
C31_Witness ==
    /\ last_event.type = "EndReception"
    /\ queue_reception # <<>>
    /\ \E i \in 1..Len(event_queue) :
           /\ event_queue[i].type = "EndReception"
           /\ event_queue[i].idx = last_event.idx
           /\ event_queue[i].visitor > last_event.visitor
           /\ event_queue[i].visitor < queue_reception[1]

\* ---- C32 ----
\* C32: in every state each Snorkel instructor has exactly one of the flags
\* available, on_tour, on_break, on_lunch set, and a tour starts only with an
\* instructor none of whose earlier tour's members is still in service (no
\* EndFacility event of that instructor is pending).
C32_InstructorInOneState ==
    /\ [](\A k \in 1..num_instructors :
              LET s == instructor_states[k]
              IN  Off(s.available) + Off(s.on_tour) + Off(s.on_break) + Off(s.on_lunch) = 1)
    /\ [][\A k \in 1..num_instructors :
              (~instructor_states[k].on_tour /\ instructor_states'[k].on_tour)
                  => \A i \in 1..Len(event_queue) :
                         (event_queue[i].type = "EndFacility" /\ event_queue[i].idx = k
                          /\ event_queue[i].facility = Snorkel)
                             => ~Contains(event_queue', event_queue[i])]_vars

\* ---- C33 ----
\* C33: a call of get_next_batch that returns nobody leaves the queue as it
\* was, the same entities in the same order with the same arrival times, and
\* leaves its statistics as if the call had not happened: the recorded wait
\* durations and the time-weighted integral of the length are unchanged.
C33_FailedBatchLeavesNoTrace ==
    [][(/\ last_event'.type = "get_next_batch"
        /\ Len(queue_server'.server_queue) = Len(queue_server.server_queue))
          => /\ queue_server'.server_queue = queue_server.server_queue
             /\ queue_server'.waiting_times = queue_server.waiting_times
             /\ queue_server'.total_queue_length_time
                    = queue_server.total_queue_length_time]_vars

\* ---- C34 ----
\* C34: release_tubes never has more tubes to release than are occupied (the
\* floor at 0 is not needed), and no tube is occupied while nobody is in
\* service at the Pipes River.
C34_TubeFloorNeverNeeded ==
    /\ [](users_in_service[PipesRiver] = <<>> => occupied_tubes = 0)
    /\ [][(Handled("EndFacility") /\ last_event'.facility = PipesRiver)
             => LET e == ents[last_event'.visitor]
                    partner == e.tube_partner
                    tubes_to_release ==
                        IF ~e.is_shared_tube THEN CeilHalf(e.group_size)
                        ELSE IF partner # 0 /\ ~Contains(users_in_service'[PipesRiver], partner)
                             THEN CeilHalf(e.group_size + ents[partner].group_size)
                             ELSE 0
                IN  tubes_to_release <= occupied_tubes]_vars

\* ---- C35 ----
\* C35: an arrival at a restaurant leads to one service and one meal: the
\* step that ends an entity's service charges its meal and schedules its
\* EndMeal without starting another service of the same entity, so that no
\* entity ever has a service end and a meal end pending together, or two of
\* either.
C35_OneServiceOneMeal ==
    \A v \in 1..Len(ents) :
        Cardinality({i \in 1..Len(event_queue) :
                        /\ event_queue[i].type \in {"EndRestaurantService", "EndMeal"}
                        /\ event_queue[i].visitor = v}) <= 1

\* ---- C36 ----
\* C36: an entity is in at most one place: over all facilities it stands at
\* most once in a queue or in service, and at most one event that ends its
\* reception, ride, restaurant service or meal, or that makes it arrive at a
\* facility or restaurant, is pending for it.
C36_EntityInOnePlace ==
    \A v \in 1..Len(ents) :
        LET Times(s) == Cardinality({i \in 1..Len(s) : s[i] = v})
            RECURSIVE UpTo(_)
            UpTo(f) == IF f = 0 THEN 0
                       ELSE Times(queue_regular[f]) + Times(queue_express[f])
                            + Times(users_in_service[f]) + UpTo(f - 1)
            places == UpTo(Cardinality(Facilities))
            moves == {i \in 1..Len(event_queue) :
                         /\ event_queue[i].visitor = v
                         /\ event_queue[i].type \in
                                {"EndReception", "ArriveAtFacility", "EndFacility",
                                 "ArriveAtRestaurant", "EndRestaurantService", "EndMeal"}}
        IN  places <= 1 /\ Cardinality(moves) <= 1

\* ---- C37 ----
\* C37: a Family split conserves people: when an EndFacility step splits a
\* Family, the group sizes of the SubGroups it creates sum to the Family's
\* group_size.
C37_SplitConservesPeople ==
    [][\A v \in 1..Len(ents) :
           ents[v].kind = "Family" /\ ~ents[v].is_split /\ ents'[v].is_split
               => SumSizes([ents |-> ents'], [k \in 1..(Len(ents') - Len(ents)) |-> Len(ents) + k])
                  = ents[v].group_size]_vars

C39_LastSampleIsQueueSize ==
    [][/\ last_event'.type \in {"add", "pop", "remove", "get_next_batch"}
       /\ Len(queue_server'.queue_lengths) > Len(queue_server.queue_lengths)
       => LET Q == queue_server'
          IN  /\ Q.queue_lengths[Len(Q.queue_lengths)] = Len(Q.server_queue)
              /\ \A i \in 1..(Len(Q.queue_change_times) - 1) :
                     Q.queue_change_times[i] <= Q.queue_change_times[i + 1]]_vars

\* ---- C40 ----
\* C40: the number of entities in service at the Single Slide never exceeds
\* the facility's capacity of 6.
C40_SingleSlideWithinCapacity ==
    Len(users_in_service[SingleSlide]) <= capacity[SingleSlide]

====
